---------------------------- MODULE Spec2Model ----------------------------
(***************************************************************************)
(* amp-orchestrator: worker supervisor (internal/worker), log tailer       *)
(* (internal/worker/tailer.go) and WebSocket hub (internal/hub).           *)
(*                                                                         *)
(* Three specifications share the variables of this module:                *)
(*   Spec      the worker supervisor: HTTP handler goroutines running      *)
(*             Manager operations step by step, one exit monitor per       *)
(*             spawned process, the registry file and the tailer map;      *)
(*   HubSpec   the hub loop, its unbuffered channels, the clients' send    *)
(*             buffers and the facade goroutines that call Broadcast;      *)
(*   TailSpec  one LogTailer polling one log file that a writer changes.   *)
(* Each specification leaves the other parts' variables unchanged.         *)
(***************************************************************************)
EXTENDS Integers, Sequences, FiniteSets, TLC

(***************************************************************************)
(* Bounds of the model.                                                    *)
(***************************************************************************)
MaxWorkers == 2      \* worker IDs 1..MaxWorkers (uuid prefixes, all distinct)
MaxSpawns == 3       \* processes spawned by start/retry, PIDs 1..MaxSpawns
MaxThreads == 2      \* HTTP handler goroutines inside Manager at once
MaxOps == 3          \* Manager operations begun over a run

WorkerIDs == 1..MaxWorkers
PIDs == 1..MaxSpawns
Threads == 1..MaxThreads

(***************************************************************************)
(* internal/worker/types.go                                                *)
(***************************************************************************)
StatusRunning == "running"
StatusStopped == "stopped"
StatusInterrupted == "interrupted"
StatusAborted == "aborted"
StatusFailed == "failed"
StatusCompleted == "completed"

Statuses == {StatusRunning, StatusStopped, StatusInterrupted, StatusAborted,
             StatusFailed, StatusCompleted}

AllowedTransitions ==
    [s \in Statuses |->
        CASE s = StatusRunning -> {StatusStopped, StatusInterrupted, StatusAborted,
                                   StatusCompleted, StatusFailed}
          [] s = StatusStopped -> {StatusRunning, StatusAborted}
          [] s = StatusInterrupted -> {StatusRunning, StatusAborted}
          [] s = StatusAborted -> {StatusRunning}
          [] s = StatusFailed -> {StatusRunning}
          [] s = StatusCompleted -> {StatusRunning}]

\* CanTransition taking a transition to the same status as allowed
CanTransitionSameAllowed(from, to) ==
    IF from \notin DOMAIN AllowedTransitions THEN FALSE
    ELSE to = from \/ to \in AllowedTransitions[from]

CanTransition(from, to) ==
    IF from \notin DOMAIN AllowedTransitions THEN FALSE
    ELSE to \in AllowedTransitions[from]

(***************************************************************************)
(* State.                                                                  *)
(***************************************************************************)
VARIABLES
    \* ---- worker supervisor ----
    stateFile,   \* workers.json: a function from the IDs it holds to Worker records
    procs,       \* PIDs of the spawned processes (process groups) still alive
    nextPid,     \* the PID the next spawn gets
    nextId,      \* the worker ID the next start gets
    tailers,     \* Manager.tailers: worker ID -> tailer (named by its spawn's PID)
    liveTailers, \* tailers started and not cancelled
    thr,         \* per handler goroutine: the operation it is in and its locals
    mon,         \* per spawned PID: its MonitorWorkerExit goroutine
    nOps,        \* operations begun
    lastRet,     \* what the step just taken returned to its caller, if it returned
    hist,        \* history: onWorkerExit callbacks made (exited), IDs whose start has
                 \* written the registry (registered), IDs whose delete returned nil
                 \* (deleted), signals sent with their outcome (signals), IDs whose
                 \* thread ContinueWorker ran a child for (continued)
    logFiles     \* the log files that exist, named by their worker's ID

VARIABLES
    \* ---- hub (internal/hub) ----
    clients,       \* Hub.clients: the clients in the map
    connected,     \* Client.connected
    send,          \* Client.send: the buffered channel's queued messages
    closed,        \* Client.send has been closed
    connClosed,    \* Client.conn has been closed by this side
    lastHeartbeat, \* Client.lastHeartbeat, in seconds
    now,           \* the wall clock, in seconds
    hubPc,         \* where the goroutine running Hub.Run is
    hubMsg,        \* Run's broadcast case: the message received
    hubRound,      \* Run's broadcast case: the clients the range loop started with
    hubTodo,       \* Run's broadcast case: the clients the range loop has yet to visit
    hubTimeouts,   \* checkHeartbeats: timeoutClients not yet disconnected
    sending,       \* per goroutine inside Hub.Broadcast: the message it is sending
    unregistering, \* per goroutine inside Hub.Unregister: the client it is sending
    reader,        \* per client: ServeWS and then readPump
    writer,        \* per client: writePump
    subs,          \* per client: subscribedTypes and subscribedTasks
    nextMsg,       \* the number the next event published gets
    enq,           \* per client: the events put on Client.send so far, in order
    wire,          \* per client: the events written to the connection so far, in order
    asked          \* the last ShouldReceiveMessage call made directly, and its result

VARIABLES
    \* ---- log tailer (internal/worker/tailer.go, LogTailer) ----
    fExists,       \* the log file exists at LogTailer.filePath
    fData,         \* its bytes
    fEpoch,        \* which content this is: counts creations and truncations
    orphan,        \* bytes and epoch of the removed file an open handle still reads
    tPc,           \* the tailer: "new", "running" (tailFile in its loop), "exited"
    cancelled,     \* ctx.Done() is closed
    tFile,         \* tailFile's file: "nil", "cur" (open on the file at the path), "old"
    scanEOF,       \* tailFile's scanner has reached end of file
    lastSize,      \* tailFile's lastSize
    delivered,     \* the callback's calls so far
    fhist          \* the file was ever truncated, removed, truncated after the tailer read it

mvars == <<stateFile, procs, nextPid, nextId, tailers, liveTailers, thr, mon,
           nOps, lastRet, hist, logFiles>>

hvars == <<clients, connected, send, closed, connClosed, lastHeartbeat, now, hubPc,
           hubMsg, hubRound, hubTodo, hubTimeouts, sending, unregistering, reader,
           writer, subs, nextMsg, enq, wire, asked>>

tvars == <<fExists, fData, fEpoch, orphan, tPc, cancelled, tFile, scanEOF, lastSize,
           delivered, fhist>>


\* internal/worker/amp_parser.go: an AmpLogParser
VARIABLES
    latestThread,           \* AmpLogParser.latestThread
    conversationProcessed,  \* AmpLogParser.conversationProcessed
    lastBatch,              \* what ProcessFinalConversation, if called last, gave onMessage
    lastSnap,               \* history: the thread of the last thread-state snapshot parsed
    nSnaps,                 \* history: thread-state snapshots parsed
    nLines,                 \* history: lines parsed
    nFinals,                \* history: calls of ProcessFinalConversation
    finalsSince,            \* history: such calls since the last snapshot was parsed
    allEmitted              \* history: every message given to onMessage so far, in order

pvars == <<latestThread, conversationProcessed, lastBatch, lastSnap, nSnaps, nLines,
           nFinals, finalsSince, allEmitted>>

\* pkg/query: the cursor functions and their caller
VARIABLES
    cId,        \* the id given to GenerateCursor
    cTime,      \* the time given to GenerateCursor
    cCursor,    \* the cursor it returned
    cParsed,    \* what ParseCursor returned for that cursor
    cPc         \* the caller's position

cvars == <<cId, cTime, cCursor, cParsed, cPc>>

\* internal/api: ListTasks and a client paging through the list
VARIABLES
    lWorkers,   \* the registry: id -> start time and status
    lQuery,     \* the client's filter, sort key, sort order and limit
    lPc,        \* the client's position
    lCursor,    \* the next_cursor of the last response
    lSeen,      \* the ids of the tasks returned so far, page after page
    lPages      \* requests made

lvars == <<lWorkers, lQuery, lPc, lCursor, lSeen, lPages>>

\* ThreadStorage: the journal of one task and its readers
VARIABLES
    journal,    \* the lines of thread_<id>.jsonl
    tRes        \* the last call made on the journal as it is now, and its result

svars == <<journal, tRes>>

\* internal/worker/types.go: CanTransition and its caller
VARIABLES
    kFrom,      \* the status given as from
    kTo,        \* the status given as to
    kRes,       \* what CanTransition returned
    kPc         \* the caller's position

kvars == <<kFrom, kTo, kRes, kPc>>

\* a Client whose subscription handlers are called directly
VARIABLES
    called      \* history: the last subscribe or unsubscribe call, its request and
                \* the client's sets just before it

dvars == <<called>>

\* the callers of LogTailer.Stop
VARIABLES
    stopCalls   \* history: calls of Stop that have returned

ovars == <<stopCalls>>

\* the clients' pings
VARIABLES
    sentClosed, \* history: the clients on whose closed send channel a send was made
    nPings      \* history: pings read

gvars == <<sentClosed, nPings>>

\* internal/api/tasks.go: the StartTask handlers whose StartWorker has returned nil
VARIABLES
    startTask   \* per worker ID: where the handler that created it stands, the map
                \* its ListWorkers call returned, and the response it wrote

avars == <<startTask>>

\* the parts that are libraries called with given inputs
xvars == <<pvars, cvars, lvars, svars, kvars, dvars, ovars, gvars, avars>>

vars == <<mvars, hvars, tvars, xvars>>

\* what the steps of one part leave alone
notM == <<hvars, tvars, xvars>>
notH == <<mvars, tvars, xvars>>
notT == <<mvars, hvars, xvars>>
notP == <<mvars, hvars, tvars, cvars, lvars, svars, kvars, dvars, ovars, gvars, avars>>
notC == <<mvars, hvars, tvars, pvars, lvars, svars, kvars, dvars, ovars, gvars, avars>>
notL == <<mvars, hvars, tvars, pvars, cvars, svars, kvars, dvars, ovars, gvars, avars>>
notS == <<mvars, hvars, tvars, pvars, cvars, lvars, kvars, dvars, ovars, gvars, avars>>
notK == <<mvars, hvars, tvars, pvars, cvars, lvars, svars, dvars, ovars, gvars, avars>>

NoResponse == [code |-> 0, id |-> 0, thread |-> 0, status |-> "", logFile |-> 0]
NoStartTask == [pc |-> "none", snap |-> <<>>, resp |-> NoResponse]

AInit == startTask = [id \in WorkerIDs |-> NoStartTask]

NoRet == [op |-> "none", id |-> 0, res |-> "none"]
Idle == [pc |-> "idle", op |-> "none", id |-> 0, pid |-> 0, snap |-> <<>>]
NoMon == [pc |-> "none", id |-> 0, snap |-> <<>>, wait |-> "pending"]

\* A freshly registered worker (StartWorker's &Worker{...}).
NewWorker(id, pid) ==
    [status |-> StatusRunning, pid |-> pid, title |-> "",
     description |-> "", priority |-> "", tags |-> <<>>,
     thread |-> pid,       \* ThreadID: the thread createThread made for this start
     started |-> id,       \* Started: time.Now(), later for each later StartWorker
     logFile |-> id]       \* LogFile: worker-<id>.log

\* workers[id] = w in a loaded map.
Put(workers, id, w) ==
    [k \in DOMAIN workers \cup {id} |-> IF k = id THEN w ELSE workers[k]]

\* delete(workers, id)
Remove(workers, id) == [k \in DOMAIN workers \ {id} |-> workers[k]]

Ret(op, id, res) == [op |-> op, id |-> id, res |-> res]

MInit ==
    /\ stateFile = <<>>
    /\ procs = {}
    /\ nextPid = 1
    /\ nextId = 1
    /\ tailers = <<>>
    /\ liveTailers = {}
    /\ thr = [t \in Threads |-> Idle]
    /\ mon = [p \in PIDs |-> NoMon]
    /\ nOps = 0
    /\ lastRet = NoRet
    /\ hist = [exited |-> <<>>, registered |-> {}, deleted |-> {}, signals |-> <<>>,
               continued |-> {}]
    /\ logFiles = {}

Begin(t) == thr[t].pc = "idle" /\ nOps < MaxOps

\* Manager.stopLogTailer
stopLogTailer(id) ==
    IF id \in DOMAIN tailers
    THEN /\ liveTailers' = liveTailers \ {tailers[id]}
         /\ tailers' = Remove(tailers, id)
    ELSE UNCHANGED <<tailers, liveTailers>>

\* m.tailers[id] = tailer, after tailer.Start
startLogTailer(id, pid) ==
    /\ tailers' = Put(tailers, id, pid)
    /\ liveTailers' = liveTailers \cup {pid}

\* MonitorWorkerExit's go func(): the goroutine now waits in cmd.Wait()
MonitorWorkerExit(id, pid) ==
    mon' = [mon EXCEPT ![pid] = [pc |-> "wait", id |-> id, snap |-> <<>>, wait |-> "pending"]]

----------------------------------------------------------------------------
(***************************************************************************)
(* StartWorker                                                             *)
(***************************************************************************)
\* createThread, uuid, os.Create(logFile), cmd.Start
StartSpawn(t) ==
    /\ Begin(t)
    /\ nextPid <= MaxSpawns
    /\ nextId <= MaxWorkers
    /\ thr' = [thr EXCEPT ![t] = [pc |-> "start_load", op |-> "start", id |-> nextId,
                                  pid |-> nextPid, snap |-> <<>>]]
    /\ procs' = procs \cup {nextPid}
    /\ nextPid' = nextPid + 1
    /\ nextId' = nextId + 1
    /\ nOps' = nOps + 1
    /\ lastRet' = NoRet
    /\ logFiles' = logFiles \cup {nextId}
    /\ UNCHANGED <<stateFile, tailers, liveTailers, mon, hist>>
    /\ UNCHANGED notM
   

\* saveWorker: loadWorkers
StartLoad(t) ==
    /\ thr[t].pc = "start_load"
    /\ thr' = [thr EXCEPT ![t].pc = "start_save", ![t].snap = stateFile]
    /\ lastRet' = NoRet
    /\ UNCHANGED <<stateFile, procs, nextPid, nextId, tailers, liveTailers, mon, nOps, hist, logFiles>>
    /\ UNCHANGED notM
   

\* saveWorker: workers[worker.ID] = worker; saveWorkers
StartSave(t) ==
    /\ thr[t].pc = "start_save"
    /\ stateFile' = Put(thr[t].snap, thr[t].id, NewWorker(thr[t].id, thr[t].pid))
    /\ thr' = [thr EXCEPT ![t].pc = "start_tail", ![t].snap = <<>>]
    /\ hist' = [hist EXCEPT !.registered = @ \cup {thr[t].id}]
    /\ UNCHANGED logFiles
    /\ lastRet' = NoRet
    /\ UNCHANGED <<procs, nextPid, nextId, tailers, liveTailers, mon, nOps>>
    /\ UNCHANGED notM
   

\* the tailer is started and registered, the exit monitor launched, nil returned
StartTail(t) ==
    /\ thr[t].pc = "start_tail"
    /\ startLogTailer(thr[t].id, thr[t].pid)
    /\ MonitorWorkerExit(thr[t].id, thr[t].pid)
    /\ thr' = [thr EXCEPT ![t] = Idle]
    /\ lastRet' = Ret("start", thr[t].id, "ok")
    /\ startTask' = [startTask EXCEPT ![thr[t].id].pc = "list"]
    /\ UNCHANGED <<stateFile, procs, nextPid, nextId, nOps, hist, logFiles>>
    /\ UNCHANGED <<hvars, tvars, pvars, cvars, lvars, svars, kvars, dvars, ovars, gvars>>
   

----------------------------------------------------------------------------
(***************************************************************************)
(* A handler returns an error before changing anything.                    *)
(***************************************************************************)
Fail(t, op, id, res) ==
    /\ thr' = [thr EXCEPT ![t] = Idle]
    /\ lastRet' = Ret(op, id, res)
    /\ nOps' = nOps + 1
    /\ UNCHANGED <<stateFile, procs, nextPid, nextId, tailers, liveTailers, mon, hist, logFiles>>

\* syscall.Kill(-pid, sig), then process.Signal / process.Kill of the PID: each
\* fails exactly when the process is gone.
SignalFails(pid) == pid \notin procs

\* The signal sig is sent to the process group of pid, then to pid.
Signalled(pid, sig) ==
    hist' = [hist EXCEPT !.signals = Append(@, [pid |-> pid, sig |-> sig,
                                                ok |-> ~SignalFails(pid)])]

\* A handler returns an error after its signals have failed.
FailSignal(t, op, id, res, sig) ==
    /\ thr' = [thr EXCEPT ![t] = Idle]
    /\ lastRet' = Ret(op, id, res)
    /\ nOps' = nOps + 1
    /\ Signalled(stateFile[id].pid, sig)
    /\ UNCHANGED <<stateFile, procs, nextPid, nextId, tailers, liveTailers, mon, logFiles>>

\* The handler has loaded the registry and passed its checks; it goes on to pc.
Enter(t, op, id, pc) ==
    /\ thr' = [thr EXCEPT ![t] = [pc |-> pc, op |-> op, id |-> id, pid |-> 0,
                                  snap |-> stateFile]]
    /\ lastRet' = NoRet
    /\ nOps' = nOps + 1
    /\ UNCHANGED <<stateFile, procs, nextPid, nextId, tailers, liveTailers, mon, logFiles>>

\* A step of a handler that only calls stopLogTailer.
TailStep(t, from, to) ==
    /\ thr[t].pc = from
    /\ stopLogTailer(thr[t].id)
    /\ thr' = [thr EXCEPT ![t].pc = to]
    /\ lastRet' = NoRet
    /\ UNCHANGED <<stateFile, procs, nextPid, nextId, mon, nOps, hist, logFiles>>
    /\ UNCHANGED notM

\* A last step of a handler: saveWorkers(workers) of its changed map, return nil.
SaveStep(t, from, workers, res) ==
    /\ thr[t].pc = from
    /\ stateFile' = workers
    /\ thr' = [thr EXCEPT ![t] = Idle]
    /\ lastRet' = Ret(thr[t].op, thr[t].id, res)
    /\ UNCHANGED <<procs, nextPid, nextId, tailers, liveTailers, mon, nOps, hist, logFiles>>
    /\ UNCHANGED notM

WithStatus(workers, id, st) == Put(workers, id, [workers[id] EXCEPT !.status = st])

(***************************************************************************)
(* StopWorker                                                              *)
(***************************************************************************)
\* StopWorker without its status check
StopLoadUnchecked(t, id) ==
    /\ Begin(t)
    /\ IF id \notin DOMAIN stateFile THEN Fail(t, "stop", id, "not found")
       ELSE IF SignalFails(stateFile[id].pid)
            THEN FailSignal(t, "stop", id, "failed to kill", "SIGTERM")
       ELSE Enter(t, "stop", id, "stop_tail") /\ Signalled(stateFile[id].pid, "SIGTERM")
    /\ UNCHANGED notM

StopLoad(t, id) ==
    /\ Begin(t)
    /\ IF id \notin DOMAIN stateFile THEN Fail(t, "stop", id, "not found")
       ELSE IF stateFile[id].status # StatusRunning THEN Fail(t, "stop", id, "not running")
       ELSE IF SignalFails(stateFile[id].pid)
            THEN FailSignal(t, "stop", id, "failed to kill", "SIGTERM")
       ELSE Enter(t, "stop", id, "stop_tail") /\ Signalled(stateFile[id].pid, "SIGTERM")
    /\ UNCHANGED notM
   

StopTail(t) == TailStep(t, "stop_tail", "stop_save")

StopSave(t) == SaveStep(t, "stop_save", WithStatus(thr[t].snap, thr[t].id, StatusStopped), "ok")

(***************************************************************************)
(* InterruptWorker                                                         *)
(***************************************************************************)
\* InterruptWorker returning an error when its signal fails, as StopWorker does
InterruptLoadStrict(t, id) ==
    /\ Begin(t)
    /\ IF id \notin DOMAIN stateFile THEN Fail(t, "interrupt", id, "not found")
       ELSE IF ~CanTransition(stateFile[id].status, StatusInterrupted)
            THEN Fail(t, "interrupt", id, "cannot interrupt")
       ELSE IF SignalFails(stateFile[id].pid)
            THEN FailSignal(t, "interrupt", id, "failed to kill", "SIGINT")
       ELSE Enter(t, "interrupt", id, "interrupt_save")
            /\ Signalled(stateFile[id].pid, "SIGINT")
    /\ UNCHANGED notM

InterruptLoad(t, id) ==
    /\ Begin(t)
    /\ IF id \notin DOMAIN stateFile THEN Fail(t, "interrupt", id, "not found")
       ELSE IF ~CanTransition(stateFile[id].status, StatusInterrupted)
            THEN Fail(t, "interrupt", id, "cannot interrupt")
       ELSE Enter(t, "interrupt", id, "interrupt_save")
            /\ Signalled(stateFile[id].pid, "SIGINT")
    /\ UNCHANGED notM
   

InterruptSave(t) ==
    SaveStep(t, "interrupt_save", WithStatus(thr[t].snap, thr[t].id, StatusInterrupted), "ok")

(***************************************************************************)
(* AbortWorker                                                             *)
(***************************************************************************)
AbortLoad(t, id) ==
    /\ Begin(t)
    /\ IF id \notin DOMAIN stateFile THEN Fail(t, "abort", id, "not found")
       ELSE IF ~CanTransition(stateFile[id].status, StatusAborted)
            THEN Fail(t, "abort", id, "cannot abort")
       ELSE Enter(t, "abort", id, "abort_tail") /\ Signalled(stateFile[id].pid, "SIGKILL")
    /\ UNCHANGED notM
   

AbortTail(t) == TailStep(t, "abort_tail", "abort_save")

AbortSave(t) == SaveStep(t, "abort_save", WithStatus(thr[t].snap, thr[t].id, StatusAborted), "ok")

(***************************************************************************)
(* RetryWorker                                                             *)
(***************************************************************************)
\* RetryWorker without its CanTransition check
RetryLoadUnchecked(t, id) ==
    /\ Begin(t)
    /\ IF id \notin DOMAIN stateFile THEN Fail(t, "retry", id, "not found")
       ELSE /\ nextPid <= MaxSpawns
            /\ thr' = [thr EXCEPT ![t] = [pc |-> "retry_save", op |-> "retry", id |-> id,
                                          pid |-> nextPid, snap |-> stateFile]]
            /\ procs' = procs \cup {nextPid}
            /\ nextPid' = nextPid + 1
            /\ nOps' = nOps + 1
            /\ lastRet' = NoRet
            /\ logFiles' = logFiles \cup {stateFile[id].logFile}
            /\ UNCHANGED <<stateFile, nextId, tailers, liveTailers, mon, hist>>
    /\ UNCHANGED notM

\* loadWorkers, the transition check, cmd.Start of the new process
RetryLoad(t, id) ==
    /\ Begin(t)
    /\ IF id \notin DOMAIN stateFile THEN Fail(t, "retry", id, "not found")
       ELSE IF ~CanTransition(stateFile[id].status, StatusRunning)
            THEN Fail(t, "retry", id, "cannot retry")
       ELSE /\ nextPid <= MaxSpawns
            /\ thr' = [thr EXCEPT ![t] = [pc |-> "retry_save", op |-> "retry", id |-> id,
                                          pid |-> nextPid, snap |-> stateFile]]
            /\ procs' = procs \cup {nextPid}
            /\ nextPid' = nextPid + 1
            /\ nOps' = nOps + 1
            /\ lastRet' = NoRet
            /\ logFiles' = logFiles \cup {stateFile[id].logFile}
            /\ UNCHANGED <<stateFile, nextId, tailers, liveTailers, mon, hist>>
    /\ UNCHANGED notM
   

\* worker.PID = cmd.Process.Pid; worker.Status = StatusRunning; saveWorkers
RetrySave(t) ==
    /\ thr[t].pc = "retry_save"
    /\ stateFile' = Put(thr[t].snap, thr[t].id,
                        [thr[t].snap[thr[t].id] EXCEPT !.pid = thr[t].pid,
                                                       !.status = StatusRunning])
    /\ thr' = [thr EXCEPT ![t].pc = "retry_tail", ![t].snap = <<>>]
    /\ lastRet' = NoRet
    /\ UNCHANGED <<procs, nextPid, nextId, tailers, liveTailers, mon, nOps, hist, logFiles>>
    /\ UNCHANGED notM
   

\* a fresh tailer replaces the map entry, the exit monitor is launched, nil returned
RetryTail(t) ==
    /\ thr[t].pc = "retry_tail"
    /\ startLogTailer(thr[t].id, thr[t].pid)
    /\ MonitorWorkerExit(thr[t].id, thr[t].pid)
    /\ thr' = [thr EXCEPT ![t] = Idle]
    /\ lastRet' = Ret("retry", thr[t].id, "ok")
    /\ UNCHANGED <<stateFile, procs, nextPid, nextId, nOps, hist, logFiles>>
    /\ UNCHANGED notM
   

(***************************************************************************)
(* UpdateWorkerMetadata                                                    *)
(***************************************************************************)
Titles == {"a", "b"}

\* The arguments title, description, priority *string and tags []string: <<>> is
\* nil (the field is absent from the patch), <<v>> is a value v.
Patches ==
    {[title |-> <<t>>, description |-> <<>>, priority |-> <<>>, tags |-> <<>>] :
        t \in Titles}
    \cup {[title |-> <<>>, description |-> <<"d">>, priority |-> <<"high">>,
           tags |-> << <<"urgent">> >>]}

\* if title != nil { worker.Title = *title } and so on, field by field
ApplyPatch(w, patch) ==
    [w EXCEPT !.title = IF patch.title # <<>> THEN patch.title[1] ELSE @,
              !.description = IF patch.description # <<>> THEN patch.description[1] ELSE @,
              !.priority = IF patch.priority # <<>> THEN patch.priority[1] ELSE @,
              !.tags = IF patch.tags # <<>> THEN patch.tags[1] ELSE @]

\* loadWorkers, the existence check, the fields set in the loaded map
UpdateLoad(t, id, patch) ==
    /\ Begin(t)
    /\ IF id \notin DOMAIN stateFile THEN Fail(t, "update", id, "not found")
       ELSE /\ thr' = [thr EXCEPT ![t] = [pc |-> "update_save", op |-> "update", id |-> id,
                                          pid |-> 0,
                                          snap |-> Put(stateFile, id,
                                                       ApplyPatch(stateFile[id], patch)),
                                          patch |-> patch]]
            /\ lastRet' = NoRet
            /\ nOps' = nOps + 1
            /\ UNCHANGED <<stateFile, procs, nextPid, nextId, tailers, liveTailers, mon, hist, logFiles>>
    /\ UNCHANGED notM
   

UpdateSave(t) == SaveStep(t, "update_save", thr[t].snap, "ok")

(***************************************************************************)
(* DeleteWorker                                                            *)
(***************************************************************************)
DeleteLoad(t, id) ==
    /\ Begin(t)
    /\ IF id \notin DOMAIN stateFile THEN Fail(t, "delete", id, "not found")
       ELSE IF stateFile[id].status = StatusRunning
            THEN Enter(t, "delete", id, "delete_tail") /\ Signalled(stateFile[id].pid, "SIGTERM")
       ELSE Enter(t, "delete", id, "delete_save") /\ UNCHANGED hist
    /\ UNCHANGED notM
   

DeleteTail(t) == TailStep(t, "delete_tail", "delete_save")

\* delete(workers, workerID); os.Remove(worker.LogFile); saveWorkers
DeleteSave(t) ==
    /\ thr[t].pc = "delete_save"
    /\ stateFile' = Remove(thr[t].snap, thr[t].id)
    /\ thr' = [thr EXCEPT ![t] = Idle]
    /\ hist' = [hist EXCEPT !.deleted = @ \cup {thr[t].id}]
    /\ logFiles' = logFiles \ {thr[t].snap[thr[t].id].logFile}
    /\ lastRet' = Ret("delete", thr[t].id, "ok")
    /\ UNCHANGED <<procs, nextPid, nextId, tailers, liveTailers, mon, nOps>>
    /\ UNCHANGED notM
   

(***************************************************************************)
(* ListWorkers                                                             *)
(***************************************************************************)
\* checkProcessStatus: signal 0 to the PID
checkProcessStatus(w) == w.pid \in procs

\* the registry as ListWorkers returns it: running workers whose probe fails demoted
Reconciled(workers) ==
    [id \in DOMAIN workers |->
        IF workers[id].status = StatusRunning /\ ~checkProcessStatus(workers[id])
        THEN [workers[id] EXCEPT !.status = StatusStopped]
        ELSE workers[id]]

ListLoad(t) ==
    /\ Begin(t)
    /\ IF Reconciled(stateFile) = stateFile
       THEN Fail(t, "list", 0, "ok")
       ELSE /\ thr' = [thr EXCEPT ![t] = [pc |-> "list_save", op |-> "list", id |-> 0,
                                          pid |-> 0, snap |-> Reconciled(stateFile)]]
            /\ lastRet' = NoRet
            /\ nOps' = nOps + 1
            /\ UNCHANGED <<stateFile, procs, nextPid, nextId, tailers, liveTailers, mon, hist, logFiles>>
    /\ UNCHANGED notM
   

ListSave(t) == SaveStep(t, "list_save", thr[t].snap, "ok")

(***************************************************************************)
(* TaskHandler.StartTask after StartWorker has returned nil                *)
(***************************************************************************)
\* the worker StartTask takes for "the one we just created": the one no other
\* worker of the list was started after
LatestWorker(workers) ==
    CHOOSE id \in DOMAIN workers :
        \A other \in DOMAIN workers : workers[other].started <= workers[id].started

\* the TaskDTO StartTask encodes with 201 and hands to broadcastTaskUpdate, or
\* its 500 when the list is empty
StartTaskResponse(workers) ==
    IF DOMAIN workers = {}
    THEN [NoResponse EXCEPT !.code = 500]
    ELSE LET id == LatestWorker(workers)
         IN [code |-> 201, id |-> id, thread |-> workers[id].thread,
             status |-> workers[id].status, logFile |-> workers[id].logFile]

\* h.manager.ListWorkers(): loadWorkers and the probes; the response follows at
\* once when no worker was demoted
StartTaskList(id) ==
    /\ startTask[id].pc = "list"
    /\ LET workers == Reconciled(stateFile)
       IN startTask' = [startTask EXCEPT ![id] =
              IF workers = stateFile
              THEN [pc |-> "done", snap |-> <<>>, resp |-> StartTaskResponse(workers)]
              ELSE [pc |-> "save", snap |-> workers, resp |-> NoResponse]]
    /\ lastRet' = NoRet
    /\ UNCHANGED <<stateFile, procs, nextPid, nextId, tailers, liveTailers, thr, mon,
                   nOps, hist, logFiles>>
    /\ UNCHANGED <<hvars, tvars, pvars, cvars, lvars, svars, kvars, dvars, ovars, gvars>>

\* ListWorkers' saveWorkers of the demoted statuses, then the response
StartTaskSave(id) ==
    /\ startTask[id].pc = "save"
    /\ stateFile' = startTask[id].snap
    /\ startTask' = [startTask EXCEPT ![id] =
           [pc |-> "done", snap |-> <<>>, resp |-> StartTaskResponse(startTask[id].snap)]]
    /\ lastRet' = NoRet
    /\ UNCHANGED <<procs, nextPid, nextId, tailers, liveTailers, thr, mon, nOps, hist,
                   logFiles>>
    /\ UNCHANGED <<hvars, tvars, pvars, cvars, lvars, svars, kvars, dvars, ovars, gvars>>

(***************************************************************************)
(* ContinueWorker                                                          *)
(***************************************************************************)
\* ContinueWorker without its signal-0 probe of a worker recorded as running
ContinueLoadNoProbe(t, id) ==
    /\ Begin(t)
    /\ IF id \notin DOMAIN stateFile THEN Fail(t, "continue", id, "not found")
       ELSE IF stateFile[id].status # StatusRunning THEN Fail(t, "continue", id, "not running")
       ELSE /\ thr' = [thr EXCEPT ![t] = Idle]
            /\ lastRet' = Ret("continue", id, "ok")
            /\ nOps' = nOps + 1
            /\ logFiles' = logFiles \cup {stateFile[id].logFile}
            /\ hist' = [hist EXCEPT !.continued = @ \cup {id}]
            /\ UNCHANGED <<stateFile, procs, nextPid, nextId, tailers, liveTailers, mon>>
    /\ UNCHANGED notM

ContinueLoad(t, id) ==
    /\ Begin(t)
    /\ IF id \notin DOMAIN stateFile THEN Fail(t, "continue", id, "not found")
       ELSE IF stateFile[id].status # StatusRunning THEN Fail(t, "continue", id, "not running")
       ELSE IF ~checkProcessStatus(stateFile[id])
            THEN /\ thr' = [thr EXCEPT ![t] = [pc |-> "continue_save", op |-> "continue",
                                               id |-> id, pid |-> 0,
                                               snap |-> WithStatus(stateFile, id, StatusStopped)]]
                 /\ lastRet' = NoRet
                 /\ nOps' = nOps + 1
                 /\ UNCHANGED <<stateFile, procs, nextPid, nextId, tailers, liveTailers, mon,
                                hist, logFiles>>
       ELSE \* the log file is opened O_APPEND|O_CREATE, cmd.Run() of the child, nil
            /\ thr' = [thr EXCEPT ![t] = Idle]
            /\ lastRet' = Ret("continue", id, "ok")
            /\ nOps' = nOps + 1
            /\ logFiles' = logFiles \cup {stateFile[id].logFile}
            /\ hist' = [hist EXCEPT !.continued = @ \cup {id}]
            /\ UNCHANGED <<stateFile, procs, nextPid, nextId, tailers, liveTailers, mon>>
    /\ UNCHANGED notM
   

\* m.saveWorkers(workers) of the demoted worker, then "is not running"
ContinueSave(t) == SaveStep(t, "continue_save", thr[t].snap, "not running")

(***************************************************************************)
(* A spawned process and its MonitorWorkerExit goroutine                   *)
(***************************************************************************)
\* the process ends: by itself or by a signal it was sent
ProcExit(p) ==
    /\ p \in procs
    /\ procs' = procs \ {p}
    /\ lastRet' = NoRet
    /\ UNCHANGED <<stateFile, nextPid, nextId, tailers, liveTailers, thr, mon, nOps, hist, logFiles>>
    /\ UNCHANGED notM
   

\* what cmd.Wait() returns: nil for exit code 0, an *ExitError otherwise
WaitResults == {"nil", "exit status 1"}

\* cmd.Wait() returns w; loadWorkers; workers[workerID] exists or the goroutine ends
MonitorLoad(p, w) ==
    /\ mon[p].pc = "wait"
    /\ p \notin procs
    /\ mon' = [mon EXCEPT ![p] = IF mon[p].id \in DOMAIN stateFile
                                 THEN [pc |-> "save", id |-> mon[p].id, snap |-> stateFile,
                                       wait |-> w]
                                 ELSE [pc |-> "done", id |-> mon[p].id, snap |-> <<>>,
                                       wait |-> "pending"]]
    /\ lastRet' = NoRet
    /\ UNCHANGED <<stateFile, procs, nextPid, nextId, tailers, liveTailers, thr, nOps, hist, logFiles>>
    /\ UNCHANGED notM
   

\* worker.Status = "stopped"; saveWorkers
MonitorSave(p) ==
    /\ mon[p].pc = "save"
    /\ stateFile' = WithStatus(mon[p].snap, mon[p].id, StatusStopped)
    /\ mon' = [mon EXCEPT ![p].pc = "exit", ![p].snap = <<>>, ![p].wait = "pending"]
    /\ lastRet' = NoRet
    /\ UNCHANGED <<procs, nextPid, nextId, tailers, liveTailers, thr, nOps, hist, logFiles>>
    /\ UNCHANGED notM
   

\* onExit(workerID): stopLogTailer, then the onWorkerExit callback
MonitorOnExit(p) ==
    /\ mon[p].pc = "exit"
    /\ stopLogTailer(mon[p].id)
    /\ hist' = [hist EXCEPT !.exited = Append(@, mon[p].id)]
    /\ UNCHANGED logFiles
    /\ mon' = [mon EXCEPT ![p].pc = "done"]
    /\ lastRet' = NoRet
    /\ UNCHANGED <<stateFile, procs, nextPid, nextId, thr, nOps>>
    /\ UNCHANGED notM
   

----------------------------------------------------------------------------
(***************************************************************************)
(* internal/api/tasks.go: the HTTP status a handler answers with, from the *)
(* error its Manager call returned (strings.Contains on the message).      *)
(***************************************************************************)
StopTask(res) ==
    CASE res = "ok" -> 202
      [] res = "not found" -> 404
      [] res = "not running" -> 409
      [] OTHER -> 500

\* the body StopTask writes with that status (http.Error's message)
StopTaskBody(res) ==
    CASE res = "ok" -> ""
      [] res = "not found" -> "Task not found"
      [] res = "not running" -> "Task is not running"
      [] OTHER -> "Failed to stop task"

ContinueTask(res) ==
    CASE res = "ok" -> [code |-> 202, body |-> ""]
      [] res = "not found" -> [code |-> 404, body |-> "Task not found"]
      [] res = "not running" -> [code |-> 409, body |-> "Task is not running"]
      [] OTHER -> [code |-> 500, body |-> "Failed to continue task"]

\* InterruptTask without its "not found" branch
InterruptTaskNoNotFound(res) ==
    CASE res = "ok" -> [code |-> 202, body |-> ""]
      [] res = "cannot interrupt" -> [code |-> 409, body |-> res]
      [] OTHER -> [code |-> 500, body |-> "Failed to interrupt task"]

InterruptTask(res) ==
    CASE res = "ok" -> [code |-> 202, body |-> ""]
      [] res = "not found" -> [code |-> 404, body |-> "Task not found"]
      [] res = "cannot interrupt" -> [code |-> 409, body |-> res]
      [] OTHER -> [code |-> 500, body |-> "Failed to interrupt task"]

AbortTask(res) ==
    CASE res = "ok" -> [code |-> 202, body |-> ""]
      [] res = "not found" -> [code |-> 404, body |-> "Task not found"]
      [] res = "cannot abort" -> [code |-> 409, body |-> res]
      [] OTHER -> [code |-> 500, body |-> "Failed to abort task"]

RetryTask(res) ==
    CASE res = "ok" -> [code |-> 202, body |-> ""]
      [] res = "not found" -> [code |-> 404, body |-> "Task not found"]
      [] res = "cannot retry" -> [code |-> 409, body |-> res]
      [] OTHER -> [code |-> 500, body |-> "Failed to retry task"]

\* PATCH /api/tasks/{id}: 200 with the task, 404 for an unknown id
PatchTask(res) ==
    CASE res = "ok" -> [code |-> 200, body |-> "task"]
      [] res = "not found" -> [code |-> 404, body |-> "Task not found"]
      [] OTHER -> [code |-> 500, body |-> "Failed to update task"]

\* DELETE /api/tasks/{id}: 204, 404 for an unknown id
DeleteTask(res) ==
    CASE res = "ok" -> [code |-> 204, body |-> ""]
      [] res = "not found" -> [code |-> 404, body |-> "Task not found"]
      [] OTHER -> [code |-> 500, body |-> "Failed to delete task"]

\* the router: the handler of each operation on /api/tasks/{id}
Respond(op, res) ==
    CASE op = "stop" -> [code |-> StopTask(res), body |-> StopTaskBody(res)]
      [] op = "continue" -> ContinueTask(res)
      [] op = "interrupt" -> InterruptTask(res)
      [] op = "abort" -> AbortTask(res)
      [] op = "retry" -> RetryTask(res)
      [] op = "update" -> PatchTask(res)
      [] op = "delete" -> DeleteTask(res)

----------------------------------------------------------------------------
MNext ==
    \/ \E t \in Threads : StartSpawn(t)
    \/ \E t \in Threads : StartLoad(t)
    \/ \E t \in Threads : StartSave(t)
    \/ \E t \in Threads : StartTail(t)
    \/ \E t \in Threads, id \in WorkerIDs : StopLoad(t, id)
    \/ \E t \in Threads : StopTail(t)
    \/ \E t \in Threads : StopSave(t)
    \/ \E t \in Threads, id \in WorkerIDs : InterruptLoad(t, id)
    \/ \E t \in Threads : InterruptSave(t)
    \/ \E t \in Threads, id \in WorkerIDs : AbortLoad(t, id)
    \/ \E t \in Threads : AbortTail(t)
    \/ \E t \in Threads : AbortSave(t)
    \/ \E t \in Threads, id \in WorkerIDs : RetryLoad(t, id)
    \/ \E t \in Threads : RetrySave(t)
    \/ \E t \in Threads : RetryTail(t)
    \/ \E t \in Threads, id \in WorkerIDs, patch \in Patches : UpdateLoad(t, id, patch)
    \/ \E t \in Threads : UpdateSave(t)
    \/ \E t \in Threads, id \in WorkerIDs : DeleteLoad(t, id)
    \/ \E t \in Threads : DeleteTail(t)
    \/ \E t \in Threads : DeleteSave(t)
    \/ \E t \in Threads : ListLoad(t)
    \/ \E t \in Threads : ListSave(t)
    \/ \E t \in Threads, id \in WorkerIDs : ContinueLoad(t, id)
    \/ \E t \in Threads : ContinueSave(t)
    \/ \E p \in PIDs : ProcExit(p)
    \/ \E p \in PIDs, w \in WaitResults : MonitorLoad(p, w)
    \/ \E p \in PIDs : MonitorSave(p)
    \/ \E p \in PIDs : MonitorOnExit(p)

----------------------------------------------------------------------------
(***************************************************************************)
(* internal/hub: Hub.Run, its channels, the clients' pumps, and the facade *)
(* goroutines (internal/api/tasks.go) that call Hub.Broadcast.             *)
(***************************************************************************)
MaxClients == 2     \* WebSocket connections made over a run
MaxFacade == 1      \* goroutines publishing events (handlers, the log callback)
SendCap == 2        \* capacity of Client.send (256 in ServeWS), scaled down
MaxMsgs == 3        \* events published over a run
ClockStep == 130    \* seconds the clock advances at a time
MaxNow == 260       \* the clock stops here

heartbeatTimeout == 120

Clients == 1..MaxClients
Facade == 1..MaxFacade
HubG == 0                        \* the goroutine running Hub.Run, as a sender
Senders == Facade \cup {HubG}
Unregisterers == Clients \cup {HubG}
NoMsg == [type |-> "none", n |-> 0, by |-> 0]
Heartbeat == [type |-> "heartbeat", n |-> 0, by |-> HubG]
NoClient == 0

\* the event types the facade publishes (TaskUpdateEvent, LogEvent)
Events == {"task-update", "log"}

\* a new Client: subscribedTypes and subscribedTasks are empty maps
NoSubs == [types |-> {}, tasks |-> {}]
NotAsked == [type |-> "none", task |-> "", res |-> FALSE]

\* no subscription handler has been called directly
NoCall == [op |-> "none", sub |-> NoSubs, before |-> NoSubs]

DInit == called = NoCall

MaxPings == 1

GInit == sentClosed = {} /\ nPings = 0

HInit ==
    /\ clients = {}
    /\ connected = [c \in Clients |-> FALSE]
    /\ send = [c \in Clients |-> <<>>]
    /\ closed = [c \in Clients |-> FALSE]
    /\ connClosed = [c \in Clients |-> FALSE]
    /\ lastHeartbeat = [c \in Clients |-> 0]
    /\ now = ClockStep
    /\ hubPc = "select"
    /\ hubMsg = NoMsg
    /\ hubRound = {}
    /\ hubTodo = {}
    /\ hubTimeouts = {}
    /\ sending = [g \in Senders |-> NoMsg]
    /\ unregistering = [g \in Unregisterers |-> NoClient]
    /\ reader = [c \in Clients |-> "none"]
    /\ writer = [c \in Clients |-> "none"]
    /\ subs = [c \in Clients |-> NoSubs]
    /\ nextMsg = 1
    /\ enq = [c \in Clients |-> <<>>]
    /\ wire = [c \in Clients |-> <<>>]
    /\ asked = NotAsked

\* time passes (seconds since the server started)
ClockTick ==
    /\ now + ClockStep <= MaxNow
    /\ now' = now + ClockStep
    /\ UNCHANGED <<notH, subs, nextMsg, enq, wire, asked, clients, connected, send, closed, connClosed, lastHeartbeat, hubPc,
                   hubMsg, hubRound, hubTodo, hubTimeouts, sending, unregistering,
                   reader, writer>>

(***************************************************************************)
(* Facade: broadcastTaskUpdate / BroadcastLogEvent call h.hub.Broadcast,   *)
(* a send on the unbuffered channel h.broadcast.                           *)
(***************************************************************************)
FacadeBroadcast(f, ty) ==
    /\ sending[f] = NoMsg
    /\ nextMsg <= MaxMsgs
    /\ sending' = [sending EXCEPT ![f] = [type |-> ty, n |-> nextMsg, by |-> f]]
    /\ nextMsg' = nextMsg + 1
    /\ UNCHANGED <<notH, subs, enq, wire, asked, clients, connected, send, closed, connClosed, lastHeartbeat, now,
                   hubPc, hubMsg, hubRound, hubTodo, hubTimeouts, unregistering,
                   reader, writer>>

(***************************************************************************)
(* Hub.Run: one case of the select per iteration.                          *)
(***************************************************************************)
\* the register case leaving the client's connected flag alone
HubRegisterUnconnected(c) ==
    /\ hubPc = "select"
    /\ reader[c] = "registering"
    /\ clients' = clients \cup {c}
    /\ reader' = [reader EXCEPT ![c] = "reading"]
    /\ writer' = [writer EXCEPT ![c] = "writing"]
    /\ UNCHANGED <<notH, subs, nextMsg, enq, wire, asked, send, closed, connClosed,
                   lastHeartbeat, now, hubPc, hubMsg, hubRound, hubTodo, hubTimeouts,
                   sending, unregistering, connected>>

\* case client := <-h.register
HubRegister(c) ==
    /\ hubPc = "select"
    /\ reader[c] = "registering"
    /\ clients' = clients \cup {c}
    /\ connected' = [connected EXCEPT ![c] = TRUE]
    /\ reader' = [reader EXCEPT ![c] = "reading"]      \* go client.readPump()
    /\ writer' = [writer EXCEPT ![c] = "writing"]      \* go client.writePump()
    /\ UNCHANGED <<notH, subs, nextMsg, enq, wire, asked, send, closed, connClosed, lastHeartbeat, now, hubPc, hubMsg,
                   hubRound, hubTodo, hubTimeouts, sending, unregistering>>

\* case client := <-h.unregister, the sender being goroutine g.  Run receives only
\* at its select, so a send made by the Run goroutine itself is never received.
HubUnregister(g) ==
    /\ hubPc = "select"
    /\ unregistering[g] # NoClient
    /\ LET c == unregistering[g] IN
       /\ IF c \in clients
          THEN /\ clients' = clients \ {c}
               /\ closed' = [closed EXCEPT ![c] = TRUE]
               /\ connected' = [connected EXCEPT ![c] = FALSE]
          ELSE UNCHANGED <<clients, closed, connected>>
       /\ unregistering' = [unregistering EXCEPT ![g] = NoClient]
       /\ IF g = HubG
          THEN \* checkHeartbeats goes on: client.conn.Close(), the next client
               /\ connClosed' = [connClosed EXCEPT ![c] = TRUE]
               /\ hubTimeouts' = hubTimeouts \ {c}
               /\ UNCHANGED reader
          ELSE \* readPump's deferred c.conn.Close()
               /\ connClosed' = [connClosed EXCEPT ![c] = TRUE]
               /\ reader' = [reader EXCEPT ![c] = "done"]
               /\ UNCHANGED hubTimeouts
    /\ UNCHANGED <<notH, subs, nextMsg, enq, wire, asked, send, lastHeartbeat, now, hubPc, hubMsg, hubRound, hubTodo, sending,
                   writer>>

\* case message := <-h.broadcast, the sender being goroutine g: the range loop starts
HubBroadcast(g) ==
    /\ hubPc = "select"
    /\ sending[g] # NoMsg
    /\ hubMsg' = sending[g]
    /\ sending' = [sending EXCEPT ![g] = NoMsg]
    /\ hubRound' = clients
    /\ hubTodo' = clients
    /\ hubPc' = "broadcast"
    /\ UNCHANGED <<notH, subs, nextMsg, enq, wire, asked, clients, connected, send, closed, connClosed, lastHeartbeat, now,
                   hubTimeouts, unregistering, reader, writer>>

\* the iteration as a plain send, client.send <- message, with no default case
HubOfferBlocking(c) ==
    /\ hubPc = "broadcast"
    /\ c \in hubTodo
    /\ hubTodo' = hubTodo \ {c}
    /\ IF ~connected[c]
       THEN UNCHANGED <<send, enq>>
       ELSE /\ Len(send[c]) < SendCap
            /\ send' = [send EXCEPT ![c] = Append(@, hubMsg)]
            /\ enq' = [enq EXCEPT ![c] = Append(@, hubMsg)]
    /\ UNCHANGED <<notH, subs, nextMsg, wire, asked, closed, clients, connected, connClosed, lastHeartbeat, now, hubPc,
                   hubMsg, hubRound, hubTimeouts, sending, unregistering, reader, writer>>

\* the iteration putting the message on the buffer twice
HubOfferTwice(c) ==
    /\ hubPc = "broadcast"
    /\ c \in hubTodo
    /\ hubTodo' = hubTodo \ {c}
    /\ IF ~connected[c]
       THEN UNCHANGED <<send, enq, closed, clients, connected>>
       ELSE IF Len(send[c]) < SendCap
       THEN /\ send' = [send EXCEPT ![c] = Append(Append(@, hubMsg), hubMsg)]
            /\ enq' = [enq EXCEPT ![c] = Append(Append(@, hubMsg), hubMsg)]
            /\ UNCHANGED <<closed, clients, connected>>
       ELSE /\ closed' = [closed EXCEPT ![c] = TRUE]
            /\ clients' = clients \ {c}
            /\ connected' = [connected EXCEPT ![c] = FALSE]
            /\ UNCHANGED <<send, enq>>
    /\ UNCHANGED <<notH, subs, nextMsg, wire, asked, connClosed, lastHeartbeat, now, hubPc,
                   hubMsg, hubRound, hubTimeouts, sending, unregistering, reader, writer>>

\* one iteration of the range loop: select { case client.send <- message: default: ... }
HubOffer(c) ==
    /\ hubPc = "broadcast"
    /\ c \in hubTodo
    /\ hubTodo' = hubTodo \ {c}
    /\ IF ~connected[c]
       THEN UNCHANGED <<send, enq, closed, clients, connected>>
       ELSE IF Len(send[c]) < SendCap
       THEN /\ send' = [send EXCEPT ![c] = Append(@, hubMsg)]
            /\ enq' = [enq EXCEPT ![c] = Append(@, hubMsg)]
            /\ UNCHANGED <<closed, clients, connected>>
       ELSE /\ closed' = [closed EXCEPT ![c] = TRUE]
            /\ clients' = clients \ {c}
            /\ connected' = [connected EXCEPT ![c] = FALSE]
            /\ UNCHANGED <<send, enq>>
    /\ UNCHANGED <<notH, subs, nextMsg, wire, asked, connClosed, lastHeartbeat, now, hubPc, hubMsg, hubRound, hubTimeouts,
                   sending, unregistering, reader, writer>>

\* the range loop is over: h.mu.RUnlock(), back to the select
HubBroadcastDone ==
    /\ hubPc = "broadcast"
    /\ hubTodo = {}
    /\ hubPc' = "select"
    /\ hubMsg' = NoMsg
    /\ hubRound' = {}
    /\ UNCHANGED <<notH, subs, nextMsg, enq, wire, asked, clients, connected, send, closed, connClosed, lastHeartbeat, now,
                   hubTodo, hubTimeouts, sending, unregistering, reader, writer>>

\* checkHeartbeats: the clients to disconnect
TimedOut ==
    {c \in clients : connected[c] /\ lastHeartbeat[c] # 0
                     /\ now - lastHeartbeat[c] > heartbeatTimeout}

\* case <-h.heartbeatTicker.C: checkHeartbeats, up to its first h.Unregister(client)
HubHeartbeatTick ==
    /\ hubPc = "select"
    /\ IF TimedOut = {}
       THEN UNCHANGED <<hubPc, hubTimeouts, unregistering>>
       ELSE /\ hubPc' = "checkHeartbeats"
            /\ hubTimeouts' = TimedOut
            /\ \E c \in TimedOut : unregistering' = [unregistering EXCEPT ![HubG] = c]
    /\ UNCHANGED <<notH, subs, nextMsg, enq, wire, asked, clients, connected, send, closed, connClosed, lastHeartbeat, now,
                   hubMsg, hubRound, hubTodo, sending, reader, writer>>

\* case <-h.serverHeartbeatTicker.C: sendServerHeartbeat, up to its h.Broadcast
HubServerHeartbeatTick ==
    /\ hubPc = "select"
    /\ hubPc' = "sendServerHeartbeat"
    /\ sending' = [sending EXCEPT ![HubG] = Heartbeat]
    /\ UNCHANGED <<notH, subs, nextMsg, enq, wire, asked, clients, connected, send, closed, connClosed, lastHeartbeat, now,
                   hubMsg, hubRound, hubTodo, hubTimeouts, unregistering, reader, writer>>

(***************************************************************************)
(* A client: ServeWS, readPump, writePump.                                 *)
(***************************************************************************)
\* ServeWS: the client is built (lastHeartbeat: time.Now()) and sent on h.register
ServeWS(c) ==
    /\ reader[c] = "none"
    /\ reader' = [reader EXCEPT ![c] = "registering"]
    /\ lastHeartbeat' = [lastHeartbeat EXCEPT ![c] = now]
    /\ UNCHANGED <<notH, subs, nextMsg, enq, wire, asked, clients, connected, send, closed, connClosed, now, hubPc, hubMsg,
                   hubRound, hubTodo, hubTimeouts, sending, unregistering, writer>>

\* readPump reads a valid message that is no ping: handleMessage
ReadMessage(c) ==
    /\ reader[c] = "reading"
    /\ ~connClosed[c]
    /\ lastHeartbeat[c] # now
    /\ lastHeartbeat' = [lastHeartbeat EXCEPT ![c] = now]
    /\ UNCHANGED <<notH, subs, nextMsg, enq, wire, asked, clients, connected, send, closed, connClosed, now, hubPc, hubMsg,
                   hubRound, hubTodo, hubTimeouts, sending, unregistering, reader, writer>>

\* the pong handlePing answers client c's ping with
Pong(c) == [type |-> "pong", n |-> 0, by |-> c]

\* readPump reads a ping: handleMessage, handlePing's
\* select { case c.send <- pongBytes: default: }.  A send on a closed channel
\* panics, in a select as anywhere, and the panic ends the process.
ReadPing(c) ==
    /\ reader[c] = "reading"
    /\ ~connClosed[c]
    /\ sentClosed = {}
    /\ nPings < MaxPings
    /\ nPings' = nPings + 1
    /\ lastHeartbeat' = [lastHeartbeat EXCEPT ![c] = now]
    /\ IF closed[c]
       THEN sentClosed' = sentClosed \cup {c} /\ UNCHANGED send
       ELSE IF Len(send[c]) < SendCap
       THEN send' = [send EXCEPT ![c] = Append(@, Pong(c))] /\ UNCHANGED sentClosed
       ELSE UNCHANGED <<send, sentClosed>>
    /\ UNCHANGED <<mvars, tvars, pvars, cvars, lvars, svars, kvars, dvars, ovars, avars>>
    /\ UNCHANGED <<subs, nextMsg, enq, wire, asked, clients, connected, closed, connClosed,
                   now, hubPc, hubMsg, hubRound, hubTodo, hubTimeouts, sending,
                   unregistering, reader, writer>>

\* handleSubscribe putting the request's sets in place of the client's
handleSubscribeReplace(c, sub) ==
    subs' = [subs EXCEPT ![c] = [types |-> sub.types, tasks |-> sub.tasks]]

\* handleSubscribe: the types and task IDs of the request are added to the client's sets
handleSubscribe(c, sub) ==
    subs' = [subs EXCEPT ![c] = [types |-> @.types \cup sub.types,
                                 tasks |-> @.tasks \cup sub.tasks]]

\* handleUnsubscribe: they are deleted from the sets
handleUnsubscribe(c, sub) ==
    subs' = [subs EXCEPT ![c] = [types |-> @.types \ sub.types,
                                 tasks |-> @.tasks \ sub.tasks]]

\* ShouldReceiveMessage admitting everything as soon as one of the sets is empty
ShouldReceiveMessageEither(c, msgType, taskID) ==
    IF subs[c].types = {} \/ subs[c].tasks = {} THEN TRUE
    ELSE IF msgType \in subs[c].types THEN TRUE
    ELSE IF taskID # "" /\ taskID \in subs[c].tasks THEN TRUE
    ELSE FALSE

\* Client.ShouldReceiveMessage(msgType, taskID)
ShouldReceiveMessage(c, msgType, taskID) ==
    IF subs[c].types = {} /\ subs[c].tasks = {} THEN TRUE
    ELSE IF msgType \in subs[c].types THEN TRUE
    ELSE IF taskID # "" /\ taskID \in subs[c].tasks THEN TRUE
    ELSE FALSE

\* the subscribe request of the hub scenario: types=[log]
LogOnly == [types |-> {"log"}, tasks |-> {}]

\* readPump reads a subscribe message: handleMessage, handleSubscribe
ReadSubscribe(c, sub) ==
    /\ reader[c] = "reading"
    /\ ~connClosed[c]
    /\ subs[c] = NoSubs
    /\ lastHeartbeat' = [lastHeartbeat EXCEPT ![c] = now]
    /\ handleSubscribe(c, sub)
    /\ UNCHANGED <<notH, nextMsg, enq, wire, asked, clients, connected, send, closed,
                   connClosed, now, hubPc, hubMsg, hubRound, hubTodo, hubTimeouts, sending,
                   unregistering, reader, writer>>

\* readPump's read fails (the peer went away, or the connection was closed):
\* the deferred c.hub.Unregister(c) sends on h.unregister
ReadError(c) ==
    /\ reader[c] = "reading"
    /\ reader' = [reader EXCEPT ![c] = "unregistering"]
    /\ unregistering' = [unregistering EXCEPT ![c] = c]
    /\ UNCHANGED <<notH, subs, nextMsg, enq, wire, asked, clients, connected, send, closed, connClosed, lastHeartbeat, now,
                   hubPc, hubMsg, hubRound, hubTodo, hubTimeouts, sending, writer>>

Reverse(seq) == [k \in DOMAIN seq |-> seq[Len(seq) + 1 - k]]

\* writePump writing the queued messages last first
WriteMessagesReversed(c) ==
    /\ writer[c] = "writing"
    /\ send[c] # <<>>
    /\ send' = [send EXCEPT ![c] = <<>>]
    /\ wire' = [wire EXCEPT ![c] = @ \o Reverse(send[c])]
    /\ UNCHANGED <<notH, subs, nextMsg, enq, asked, clients, connected, closed, connClosed,
                   lastHeartbeat, now, hubPc, hubMsg, hubRound, hubTodo, hubTimeouts, sending,
                   unregistering, reader, writer>>

\* writePump: case message, ok := <-c.send with a message: it and all queued are written
WriteMessages(c) ==
    /\ writer[c] = "writing"
    /\ send[c] # <<>>
    /\ send' = [send EXCEPT ![c] = <<>>]
    /\ wire' = [wire EXCEPT ![c] = @ \o send[c]]
    /\ UNCHANGED <<notH, subs, nextMsg, enq, asked, clients, connected, closed, connClosed, lastHeartbeat, now, hubPc,
                   hubMsg, hubRound, hubTodo, hubTimeouts, sending, unregistering,
                   reader, writer>>

\* writePump: the channel is closed and drained (or a write fails): return, conn.Close()
WriteEnd(c) ==
    /\ writer[c] = "writing"
    /\ send[c] = <<>>
    /\ closed[c] \/ connClosed[c]
    /\ writer' = [writer EXCEPT ![c] = "done"]
    /\ connClosed' = [connClosed EXCEPT ![c] = TRUE]
    /\ UNCHANGED <<notH, subs, nextMsg, enq, wire, asked, clients, connected, send, closed, lastHeartbeat, now, hubPc, hubMsg,
                   hubRound, hubTodo, hubTimeouts, sending, unregistering, reader>>

HNext ==
    \/ ClockTick
    \/ \E f \in Facade, ty \in Events : FacadeBroadcast(f, ty)
    \/ \E c \in Clients : HubRegister(c)
    \/ \E g \in Unregisterers : HubUnregister(g)
    \/ \E g \in Senders : HubBroadcast(g)
    \/ \E c \in Clients : HubOffer(c)
    \/ HubBroadcastDone
    \/ HubHeartbeatTick
    \/ HubServerHeartbeatTick
    \/ \E c \in Clients : ServeWS(c)
    \/ \E c \in Clients : ReadMessage(c)
    \/ \E c \in Clients : ReadSubscribe(c, LogOnly)
    \/ \E c \in Clients : ReadError(c)
    \/ \E c \in Clients : WriteMessages(c)
    \/ \E c \in Clients : WriteEnd(c)
----------------------------------------------------------------------------
(***************************************************************************)
(* internal/worker/tailer.go: LogTailer, following one log file that other *)
(* processes create, append to, truncate and remove.                       *)
(***************************************************************************)
MaxFile == 3        \* bytes in the log file
MaxEpochs == 2      \* creations and truncations of the file over a run
MaxStops == 3       \* calls of Stop over a run

NL == "\n"
Chars == {"x", NL}

NoOrphan == [data |-> <<>>, ep |-> 0]

TInit ==
    /\ fExists = FALSE
    /\ fData = <<>>
    /\ fEpoch = 0
    /\ orphan = NoOrphan
    /\ tPc = "new"
    /\ cancelled = FALSE
    /\ tFile = "nil"
    /\ scanEOF = FALSE
    /\ lastSize = 0
    /\ delivered = <<>>
    /\ fhist = [truncated |-> FALSE, removed |-> FALSE, cut |-> FALSE]
    /\ stopCalls = 0

\* ---- the file's writers ----
\* os.Create / O_CREATE of a file that is not there
FileCreate ==
    /\ ~fExists
    /\ fEpoch < MaxEpochs
    /\ fExists' = TRUE
    /\ fData' = <<>>
    /\ fEpoch' = fEpoch + 1
    /\ UNCHANGED <<notT, orphan, tPc, cancelled, tFile, scanEOF, lastSize, delivered, fhist>>

\* a write of one byte at the end of the file
FileAppend(ch) ==
    /\ fExists
    /\ Len(fData) < MaxFile
    /\ fData' = Append(fData, ch)
    /\ UNCHANGED <<notT, fExists, fEpoch, orphan, tPc, cancelled, tFile, scanEOF, lastSize,
                   delivered, fhist>>

\* the file is truncated in place to no bytes (O_TRUNC)
FileTruncate ==
    /\ fExists
    /\ fData # <<>>
    /\ fEpoch < MaxEpochs
    /\ fData' = <<>>
    /\ fEpoch' = fEpoch + 1
    /\ fhist' = [fhist EXCEPT !.truncated = TRUE, !.cut = @ \/ (tFile = "cur" /\ lastSize > 0)]
    /\ UNCHANGED <<notT, fExists, orphan, tPc, cancelled, tFile, scanEOF, lastSize, delivered>>

\* the file is unlinked; a handle open on it keeps its bytes readable
FileRemove ==
    /\ fExists
    /\ fExists' = FALSE
    /\ fData' = <<>>
    /\ fhist' = [fhist EXCEPT !.removed = TRUE]
    /\ IF tFile = "cur"
       THEN tFile' = "old" /\ orphan' = [data |-> fData, ep |-> fEpoch]
       ELSE UNCHANGED <<tFile, orphan>>
    /\ UNCHANGED <<notT, fEpoch, tPc, cancelled, scanEOF, lastSize, delivered>>

\* ---- bufio.Scanner with ScanLines ----
\* offsets (from 1) of the newlines of data after offset pos
Newlines(data, pos) == {j \in (pos + 1)..Len(data) : data[j] = NL}

Min(S) == CHOOSE j \in S : \A k \in S : j <= k

\* The tokens successive Scan() calls return reading data from offset pos to the end
\* of file: each line without its newline, and at the end of file whatever is left.
RECURSIVE Tokens(_, _, _)
Tokens(data, pos, ep) ==
    IF Newlines(data, pos) # {}
    THEN LET j == Min(Newlines(data, pos)) IN
         <<[ep |-> ep, off |-> pos, txt |-> SubSeq(data, pos + 1, j - 1), term |-> TRUE]>>
             \o Tokens(data, j, ep)
    ELSE IF pos < Len(data)
    THEN <<[ep |-> ep, off |-> pos, txt |-> SubSeq(data, pos + 1, Len(data)), term |-> FALSE]>>
    ELSE <<>>

\* if line != "" { t.callback(...) }
NonEmpty(tokens) == SelectSeq(tokens, LAMBDA tok : tok.txt # <<>>)

\* ---- LogTailer ----
\* Start: go t.tailFile(ctx)
TailStart ==
    /\ tPc = "new"
    /\ tPc' = "running"
    /\ UNCHANGED <<notT, fExists, fData, fEpoch, orphan, cancelled, tFile, scanEOF, lastSize,
                   delivered, fhist>>

\* Stop: t.cancel(), if Start has set it; cancelling again does nothing
TailStop ==
    /\ stopCalls < MaxStops
    /\ stopCalls' = stopCalls + 1
    /\ cancelled' = IF tPc = "new" THEN cancelled ELSE TRUE
    /\ UNCHANGED <<mvars, hvars, pvars, cvars, lvars, svars, kvars, dvars, gvars, avars>>
    /\ UNCHANGED <<fExists, fData, fEpoch, orphan, tPc, tFile, scanEOF, lastSize,
                   delivered, fhist>>

\* tailFile returning at ctx.Done() without closing its file
TailObserveStopLeak ==
    /\ tPc = "running"
    /\ cancelled
    /\ tPc' = "exited"
    /\ UNCHANGED <<notT, fExists, fData, fEpoch, orphan, cancelled, tFile, scanEOF, lastSize,
                   delivered, fhist>>

\* tailFile, case <-ctx.Done(): close the file, return
TailObserveStop ==
    /\ tPc = "running"
    /\ cancelled
    /\ tPc' = "exited"
    /\ tFile' = "nil"
    /\ orphan' = NoOrphan
    /\ UNCHANGED <<notT, fExists, fData, fEpoch, cancelled, scanEOF, lastSize, delivered,
                   fhist>>

\* tailFile, case <-ticker.C: one poll of the file
Poll ==
    /\ tPc = "running"
    /\ IF ~fExists
       THEN \* os.Stat fails: close the handle, wait for the file
            /\ tFile' = "nil"
            /\ scanEOF' = IF tFile = "nil" THEN scanEOF ELSE FALSE
            /\ orphan' = NoOrphan
            /\ UNCHANGED <<lastSize, delivered>>
       ELSE LET size == Len(fData)
                \* if file == nil: open, new scanner, lastSize = 0
                opened == tFile = "nil"
                size1 == IF opened THEN 0 ELSE lastSize
                \* if stat.Size() < lastSize: reopen, new scanner, lastSize = 0
                reopened == size < size1
                file == IF opened \/ reopened THEN "cur" ELSE tFile
                size2 == IF reopened THEN 0 ELSE size1
                \* if lastSize > 0: Seek(lastSize), new scanner
                sought == size2 > 0
                \* a scanner that reached the end of file returns no more tokens
                atEOF == scanEOF /\ ~opened /\ ~reopened /\ ~sought
                data == IF file = "cur" THEN fData ELSE orphan.data
                ep == IF file = "cur" THEN fEpoch ELSE orphan.ep
            IN  /\ tFile' = file
                /\ orphan' = IF file = "cur" THEN NoOrphan ELSE orphan
                /\ scanEOF' = TRUE
                /\ delivered' = IF atEOF THEN delivered
                                ELSE delivered \o NonEmpty(Tokens(data, size2, ep))
                \* pos, _ := file.Seek(0, io.SeekCurrent); lastSize = pos
                /\ lastSize' = IF atEOF THEN size2 ELSE Len(data)
    /\ UNCHANGED <<notT, fExists, fData, fEpoch, tPc, cancelled, fhist>>

\* RetryWorker, after the worker's tailer was stopped and has returned: a new
\* LogTailer on the same log file with the same callback, and its Start
RetryStartTailer ==
    /\ tPc = "exited"
    /\ tPc' = "running"
    /\ cancelled' = FALSE
    /\ tFile' = "nil"
    /\ scanEOF' = FALSE
    /\ lastSize' = 0
    /\ UNCHANGED <<notT, fExists, fData, fEpoch, orphan, delivered, fhist>>

TNext ==
    \/ FileCreate
    \/ \E ch \in Chars : FileAppend(ch)
    \/ FileTruncate
    \/ FileRemove
    \/ TailStart
    \/ TailStop
    \/ TailObserveStop
    \/ Poll

----------------------------------------------------------------------------
(***************************************************************************)
(* internal/worker/amp_parser.go: AmpLogParser, fed the lines of amp's log  *)
(* by the tailer's callback and asked for the conversation at the end.     *)
(* Texts are sequences of characters, so that strings.TrimSpace is computed.*)
(***************************************************************************)
MaxContent == 2     \* content items in one message
MaxLines == 3       \* lines parsed over a run
MaxFinals == 2      \* calls of ProcessFinalConversation over a run

SP == " "
Blank == <<SP>>
Padded == <<SP, "a", SP>>

\* strings.TrimSpace
RECURSIVE TrimLeft(_)
TrimLeft(s) == IF s # <<>> /\ Head(s) = SP THEN TrimLeft(Tail(s)) ELSE s
RECURSIVE TrimRight(_)
TrimRight(s) ==
    IF s # <<>> /\ s[Len(s)] = SP THEN TrimRight(SubSeq(s, 1, Len(s) - 1)) ELSE s
TrimSpace(s) == TrimRight(TrimLeft(s))

\* Content: the items a message of amp's thread can hold
ContentItems ==
    { [type |-> "text", text |-> Padded, thinking |-> <<>>, name |-> <<>>],
      [type |-> "text", text |-> Blank, thinking |-> <<>>, name |-> <<>>],
      [type |-> "thinking", text |-> <<>>, thinking |-> <<"t">>, name |-> <<>>],
      [type |-> "tool_use", text |-> <<>>, thinking |-> <<>>, name |-> <<"Bash">>] }

\* items the parser has to pass over: a tool result, a blank thought, a nameless tool
OddItems ==
    { [type |-> "tool_result", text |-> <<>>, thinking |-> <<>>, name |-> <<>>],
      [type |-> "thinking", text |-> <<>>, thinking |-> Blank, name |-> <<>>],
      [type |-> "tool_use", text |-> <<>>, thinking |-> <<>>, name |-> <<>>] }

SeqsUpTo(S, n) == UNION {[1..k -> S] : k \in 0..n}

Text == [type |-> "text", text |-> Padded, thinking |-> <<>>, name |-> <<>>]
Thinking == [type |-> "thinking", text |-> <<>>, thinking |-> <<"t">>, name |-> <<>>]
ToolUse == [type |-> "tool_use", text |-> <<>>, thinking |-> <<>>, name |-> <<"Bash">>]

\* an assistant's reply with a thought, a tool call and a text, in two of its orders
Replies == {<<Thinking, ToolUse, Text>>, <<Text, ToolUse, Thinking>>}

Contents ==
    SeqsUpTo(ContentItems, MaxContent) \cup Replies
    \cup {<<o, i>> : o \in OddItems, i \in ContentItems}

\* Message
Messages == [role : {"user", "assistant"}, content : Contents]
    \cup {[role |-> "system", content |-> <<CHOOSE i \in ContentItems : i.text = Padded>>]}

Hi == [role |-> "user",
       content |-> <<[type |-> "text", text |-> <<"h", "i">>, thinking |-> <<>>,
                      name |-> <<>>]>>]

\* Thread: a title and the messages so far; amp's snapshots are cumulative
AmpThreads ==
    [title : {<<>>, <<"T">>},
     messages : {<<>>} \cup {<<m>> : m \in Messages}
                \cup {<<Hi, m>> : m \in {x \in Messages : x.role = "assistant"}},
     nil : {FALSE}]

\* latestThread == nil
NoThread == [title |-> <<>>, messages |-> <<>>, nil |-> TRUE]

\* the lines of the log: blank, not JSON, an event of another type, a thread-state
\* event without a thread, and thread-state snapshots
LogLines ==
    [kind : {"blank", "malformed"}, type : {""}, thread : {NoThread}]
    \cup [kind : {"json"}, type : {"", "tool-call"}, thread : {NoThread}]
    \cup [kind : {"json"}, type : {"thread-state"}, thread : AmpThreads \cup {NoThread}]
    \cup [kind : {"json"}, type : {"tool-call"},
          thread : {[title |-> <<"T">>, messages |-> <<Hi>>, nil |-> FALSE]}]

\* NewAmpLogParser
PInit ==
    /\ latestThread = NoThread
    /\ conversationProcessed = FALSE
    /\ lastBatch = <<>>
    /\ lastSnap = NoThread
    /\ nSnaps = 0
    /\ nLines = 0
    /\ nFinals = 0
    /\ finalsSince = 0
    /\ allEmitted = <<>>

\* ThreadMessage, as emitMessage builds it
ThreadMessage(type, content, kind) == [type |-> type, content |-> content, kind |-> kind]

\* emitMessage: the message goes to onMessage unless its content is blank
emitMessage(out, type, content, kind) ==
    IF TrimSpace(content) # <<>> THEN Append(out, ThreadMessage(type, content, kind))
    ELSE out

\* formatToolUse: a description ending in the tool's name or argument
formatToolUse(content) == <<"Using tool: ">> \o content.name

\* processUserMessage: the loop over ampMsg.Content from item k on
RECURSIVE processUserMessage(_, _, _)
processUserMessage(out, content, k) ==
    IF k > Len(content) THEN out
    ELSE processUserMessage(
            IF content[k].type = "text" /\ TrimSpace(content[k].text) # <<>>
            THEN emitMessage(out, "user", TrimSpace(content[k].text), "")
            ELSE out,
            content, k + 1)

\* processAssistantMessage: its three loops over ampMsg.Content
RECURSIVE ThinkingLoop(_, _, _)
ThinkingLoop(out, content, k) ==
    IF k > Len(content) THEN out
    ELSE ThinkingLoop(
            IF content[k].type = "thinking" /\ TrimSpace(content[k].thinking) # <<>>
            THEN emitMessage(out, "assistant", TrimSpace(content[k].thinking), "thinking")
            ELSE out,
            content, k + 1)

RECURSIVE ToolLoop(_, _, _)
ToolLoop(out, content, k) ==
    IF k > Len(content) THEN out
    ELSE ToolLoop(
            IF content[k].type = "tool_use" /\ content[k].name # <<>>
            THEN emitMessage(out, "tool", formatToolUse(content[k]), "tool_use")
            ELSE out,
            content, k + 1)

RECURSIVE TextLoop(_, _, _)
TextLoop(out, content, k) ==
    IF k > Len(content) THEN out
    ELSE TextLoop(
            IF content[k].type = "text" /\ TrimSpace(content[k].text) # <<>>
            THEN emitMessage(out, "assistant", TrimSpace(content[k].text), "")
            ELSE out,
            content, k + 1)

\* processAssistantMessage with the loop for the texts run first
processAssistantTextFirst(out, ampMsg) ==
    ToolLoop(ThinkingLoop(TextLoop(out, ampMsg.content, 1), ampMsg.content, 1),
             ampMsg.content, 1)

processAssistantMessage(out, ampMsg) ==
    TextLoop(ToolLoop(ThinkingLoop(out, ampMsg.content, 1), ampMsg.content, 1),
             ampMsg.content, 1)

\* processMessage: switch ampMsg.Role
processMessage(out, ampMsg) ==
    CASE ampMsg.role = "user" -> processUserMessage(out, ampMsg.content, 1)
      [] ampMsg.role = "assistant" -> processAssistantMessage(out, ampMsg)
      [] OTHER -> out

\* ProcessFinalConversation: the loop over latestThread.Messages from message k on
RECURSIVE MessagesLoop(_, _, _)
MessagesLoop(out, messages, k) ==
    IF k > Len(messages) THEN out
    ELSE MessagesLoop(processMessage(out, messages[k]), messages, k + 1)

\* what ProcessFinalConversation emits for a thread
Conversation(thread) ==
    MessagesLoop(
        IF thread.title # <<>>
        THEN emitMessage(<<>>, "system", <<"Thread: ">> \o thread.title, "")
        ELSE <<>>,
        thread.messages, 1)

\* ParseLine whose updateThreadState leaves conversationProcessed as it is
ParseLineKeepsProcessed(line) ==
    /\ nLines < MaxLines
    /\ nLines' = nLines + 1
    /\ IF line.kind = "json" /\ line.type = "thread-state" /\ ~line.thread.nil
       THEN /\ latestThread' = line.thread
            /\ lastSnap' = line.thread
            /\ nSnaps' = nSnaps + 1
            /\ finalsSince' = 0
            /\ UNCHANGED conversationProcessed
       ELSE UNCHANGED <<latestThread, conversationProcessed, lastSnap, nSnaps, finalsSince>>
    /\ lastBatch' = <<>>
    /\ UNCHANGED <<nFinals, allEmitted>>
    /\ UNCHANGED notP

\* ParseLine(line), with updateThreadState
ParseLine(line) ==
    /\ nLines < MaxLines
    /\ nLines' = nLines + 1
    /\ IF line.kind = "json" /\ line.type = "thread-state" /\ ~line.thread.nil
       THEN /\ latestThread' = line.thread
            /\ conversationProcessed' = FALSE
            /\ lastSnap' = line.thread
            /\ nSnaps' = nSnaps + 1
            /\ finalsSince' = 0
       ELSE UNCHANGED <<latestThread, conversationProcessed, lastSnap, nSnaps, finalsSince>>
    /\ lastBatch' = <<>>
    /\ UNCHANGED <<nFinals, allEmitted>>
    /\ UNCHANGED notP

\* ProcessFinalConversation that does not look at conversationProcessed
ProcessFinalConversationAgain ==
    /\ nFinals < MaxFinals
    /\ nFinals' = nFinals + 1
    /\ finalsSince' = finalsSince + 1
    /\ IF latestThread.nil
       THEN /\ lastBatch' = <<>>
            /\ UNCHANGED conversationProcessed
       ELSE /\ lastBatch' = Conversation(latestThread)
            /\ conversationProcessed' = TRUE
    /\ allEmitted' = allEmitted \o lastBatch'
    /\ UNCHANGED <<latestThread, lastSnap, nSnaps, nLines>>
    /\ UNCHANGED notP

\* ProcessFinalConversation
ProcessFinalConversation ==
    /\ nFinals < MaxFinals
    /\ nFinals' = nFinals + 1
    /\ finalsSince' = finalsSince + 1
    /\ IF latestThread.nil \/ conversationProcessed
       THEN /\ lastBatch' = <<>>
            /\ UNCHANGED conversationProcessed
       ELSE /\ lastBatch' = Conversation(latestThread)
            /\ conversationProcessed' = TRUE
    /\ allEmitted' = allEmitted \o lastBatch'
    /\ UNCHANGED <<latestThread, lastSnap, nSnaps, nLines>>
    /\ UNCHANGED notP

PNext ==
    \/ \E line \in LogLines : ParseLine(line)
    \/ ProcessFinalConversation

----------------------------------------------------------------------------
(***************************************************************************)
(* pkg/query: GenerateCursor and ParseCursor.  Strings are sequences of    *)
(* characters; a time is a number of half seconds since the Unix epoch, so *)
(* that a time can lie between two whole seconds.                          *)
(***************************************************************************)
MaxTime == 5        \* the latest time, in half seconds
MaxIdLen == 2       \* characters in an id

TicksPerSecond == 2
Times == (0 - 3)..MaxTime

DigitChars == <<"0", "1", "2", "3", "4", "5", "6", "7", "8", "9">>
IdChars == {"w", "_", "7"}
IdStrings == UNION {[1..k -> IdChars] : k \in 0..MaxIdLen}

\* Time.Unix(): whole seconds since the epoch, rounded down
Unix(t) == t \div TicksPerSecond
\* time.Unix(sec, 0)
TimeOfUnix(sec) == sec * TicksPerSecond

\* fmt's %d
RECURSIVE FormatNat(_)
FormatNat(n) ==
    IF n < 10 THEN <<DigitChars[n + 1]>>
    ELSE FormatNat(n \div 10) \o <<DigitChars[(n % 10) + 1]>>
FormatInt(n) == IF n < 0 THEN <<"-">> \o FormatNat(0 - n) ELSE FormatNat(n)

IsDigit(ch) == \E d \in DOMAIN DigitChars : DigitChars[d] = ch
DigitValue(ch) == (CHOOSE d \in DOMAIN DigitChars : DigitChars[d] = ch) - 1

RECURSIVE ParseNat(_)
ParseNat(s) ==
    IF s = <<>> THEN 0
    ELSE ParseNat(SubSeq(s, 1, Len(s) - 1)) * 10 + DigitValue(s[Len(s)])

\* strconv.ParseInt(s, 10, 64)
ParseInt(s) ==
    LET signed == s # <<>> /\ Head(s) \in {"-", "+"}
        digits == IF signed THEN Tail(s) ELSE s
    IN  IF digits = <<>> \/ \E k \in DOMAIN digits : ~IsDigit(digits[k])
        THEN [ok |-> FALSE, val |-> 0]
        ELSE [ok |-> TRUE,
              val |-> IF signed /\ Head(s) = "-" THEN 0 - ParseNat(digits)
                      ELSE ParseNat(digits)]

\* GenerateCursor(id, started): fmt.Sprintf("%d_%s", started.Unix(), id)
GenerateCursor(id, started) == FormatInt(Unix(started)) \o <<"_">> \o id

\* strings.SplitN(s, "_", 2)
SplitN2(s) ==
    LET seps == {k \in DOMAIN s : s[k] = "_"} IN
    IF seps = {} THEN <<s>>
    ELSE LET k == CHOOSE i \in seps : \A j \in seps : i <= j IN
         <<SubSeq(s, 1, k - 1), SubSeq(s, k + 1, Len(s))>>

\* strings.SplitN cutting at the last separator
SplitLast(s) ==
    LET seps == {k \in DOMAIN s : s[k] = "_"} IN
    IF seps = {} THEN <<s>>
    ELSE LET k == CHOOSE i \in seps : \A j \in seps : i >= j IN
         <<SubSeq(s, 1, k - 1), SubSeq(s, k + 1, Len(s))>>

BadCursor == [err |-> TRUE, time |-> 0, id |-> <<>>]

\* ParseCursor splitting at the last separator
ParseCursorLast(cursor) ==
    LET parts == SplitLast(cursor) IN
    IF Len(parts) # 2 THEN BadCursor
    ELSE LET timestamp == ParseInt(parts[1]) IN
         IF ~timestamp.ok THEN BadCursor
         ELSE [err |-> FALSE, time |-> TimeOfUnix(timestamp.val), id |-> parts[2]]

\* ParseCursor(cursor)
ParseCursor(cursor) ==
    LET parts == SplitN2(cursor) IN
    IF Len(parts) # 2 THEN BadCursor
    ELSE LET timestamp == ParseInt(parts[1]) IN
         IF ~timestamp.ok THEN BadCursor
         ELSE [err |-> FALSE, time |-> TimeOfUnix(timestamp.val), id |-> parts[2]]

NotParsed == [err |-> FALSE, time |-> 0, id |-> <<"?">>]

\* the cursor functions called with an id and a time
CInit ==
    /\ cId = <<>>
    /\ cTime = 0
    /\ cCursor = <<>>
    /\ cParsed = NotParsed
    /\ cPc = "idle"

CallGenerateCursor(id, t) ==
    /\ cPc \in {"idle", "parsed"}
    /\ cId' = id
    /\ cTime' = t
    /\ cCursor' = GenerateCursor(id, t)
    /\ cParsed' = NotParsed
    /\ cPc' = "generated"
    /\ UNCHANGED notC

CallParseCursor ==
    /\ cPc = "generated"
    /\ cParsed' = ParseCursor(cCursor)
    /\ cPc' = "parsed"
    /\ UNCHANGED <<cId, cTime, cCursor>>
    /\ UNCHANGED notC

CNext ==
    \/ \E id \in IdStrings, t \in Times : CallGenerateCursor(id, t)
    \/ CallParseCursor

----------------------------------------------------------------------------
(***************************************************************************)
(* internal/api/tasks.go: ListTasks over a registry that does not change,  *)
(* and a client that follows next_cursor.                                  *)
(***************************************************************************)
MaxTasks == 3       \* workers in the registry
MaxStarted == 2     \* the latest start time, in half seconds
MaxLimit == 2       \* the largest limit asked for
MaxPages == 3       \* requests the client makes

ListIDs == {<<"a">>, <<"b">>, <<"c">>}
ListTimes == 0..MaxStarted
ListStatuses == {"running", "stopped"}

\* the registries: up to MaxTasks workers, each with its start time and status
Registries ==
    UNION {[S -> [started : ListTimes, status : ListStatuses]] :
              S \in {T \in SUBSET ListIDs : Cardinality(T) <= MaxTasks}}

\* TaskQuery: the status filter (empty: none), sort_by, sort_order and limit
TaskQueries ==
    [status : {{}, {"running"}, {"stopped"}},
     sortBy : {"started", "status", "id"},
     sortOrder : {"asc", "desc"},
     limit : 1..MaxLimit]

\* Go's order of strings, for the ids and statuses of the model
CharRank(ch) == CASE ch = "a" -> 1 [] ch = "b" -> 2 [] ch = "c" -> 3 [] OTHER -> 0
RECURSIVE StringLess(_, _)
StringLess(s, t) ==
    IF t = <<>> THEN FALSE
    ELSE IF s = <<>> THEN TRUE
    ELSE IF CharRank(Head(s)) # CharRank(Head(t)) THEN CharRank(Head(s)) < CharRank(Head(t))
    ELSE StringLess(Tail(s), Tail(t))
StatusLess(s, t) == s = "running" /\ t = "stopped"

\* ListWorkersWithFilter: the status filter
Filtered(registry, q) ==
    {id \in DOMAIN registry : q.status = {} \/ registry[id].status \in q.status}

\* the slice ListWorkers builds from the map, in the order the map is ranged over
Slices(registry, ids) ==
    LET orders == {p \in [1..Cardinality(ids) -> ids] :
                      \A i, j \in DOMAIN p : i # j => p[i] # p[j]}
    IN  {[k \in DOMAIN p |-> [id |-> p[k], started |-> registry[p[k]].started,
                              status |-> registry[p[k]].status]] : p \in orders}

\* sortWorkers: shouldSwap for workers[i], workers[j]
shouldSwap(wi, wj, sortBy, sortOrder) ==
    CASE sortBy = "id" ->
            IF sortOrder = "asc" THEN StringLess(wj.id, wi.id) ELSE StringLess(wi.id, wj.id)
      [] sortBy = "status" ->
            IF sortOrder = "asc" THEN StatusLess(wj.status, wi.status)
            ELSE StatusLess(wi.status, wj.status)
      [] OTHER ->
            IF sortOrder = "asc" THEN wi.started > wj.started ELSE wi.started < wj.started

\* sortWorkers: the two nested loops, from positions i and j on
RECURSIVE sortWorkers(_, _, _, _, _)
sortWorkers(workers, i, j, sortBy, sortOrder) ==
    IF i >= Len(workers) THEN workers
    ELSE IF j > Len(workers) THEN sortWorkers(workers, i + 1, i + 2, sortBy, sortOrder)
    ELSE sortWorkers(
            IF shouldSwap(workers[i], workers[j], sortBy, sortOrder)
            THEN [workers EXCEPT ![i] = workers[j], ![j] = workers[i]]
            ELSE workers,
            i, j + 1, sortBy, sortOrder)

\* ListTasks: the loop looking for the position after the parsed cursor c, from 0
startAfter(workers, c, sortOrder) ==
    LET exact(i) == workers[i].started = c.time /\ workers[i].id = c.id
        past(i) == \/ sortOrder = "desc" /\ workers[i].started < c.time
                   \/ sortOrder = "asc" /\ workers[i].started > c.time
        hits == {i \in DOMAIN workers : exact(i) \/ past(i)}
    IN  IF hits = {} THEN 0
        ELSE LET i == CHOOSE k \in hits : \A m \in hits : k <= m IN
             IF exact(i) THEN i ELSE i - 1

\* ListTasks: startIndex
startIndex(workers, cursor, sortOrder) ==
    IF cursor = <<>> THEN 0 ELSE startAfter(workers, ParseCursor(cursor), sortOrder)

\* ListTasks: the response for the sorted workers
Response(workers, q, cursor) ==
    LET start == startIndex(workers, cursor, q.sortOrder)
        end == IF start + q.limit > Len(workers) THEN Len(workers) ELSE start + q.limit
        page == SubSeq(workers, start + 1, end)
        more == end < Len(workers)
    IN  [tasks |-> [k \in DOMAIN page |-> page[k].id],
         hasMore |-> more,
         nextCursor |-> IF more /\ page # <<>>
                        THEN GenerateCursor(page[Len(page)].id, page[Len(page)].started)
                        ELSE <<>>]

\* no request made: the part at rest
LInit ==
    /\ lWorkers = << >>
    /\ lQuery = [status |-> {}, sortBy |-> "started", sortOrder |-> "desc", limit |-> 1]
    /\ lPc = "done"
    /\ lCursor = <<>>
    /\ lSeen = <<>>
    /\ lPages = 0

\* the registry is filled and a client makes up its query
ListSetup ==
    /\ lPc = "done" /\ lPages = 0
    /\ lWorkers' \in Registries
    /\ lQuery' \in TaskQueries
    /\ lPc' = "first"
    /\ UNCHANGED <<lCursor, lSeen, lPages>>
    /\ UNCHANGED notL

\* GET /api/tasks with the query and the cursor the client holds
ListTasks ==
    /\ lPc \in {"first", "next"}
    /\ lPages < MaxPages
    /\ \E slice \in Slices(lWorkers, Filtered(lWorkers, lQuery)) :
          LET workers == sortWorkers(slice, 1, 2, lQuery.sortBy, lQuery.sortOrder)
              resp == Response(workers, lQuery, lCursor)
          IN  /\ lSeen' = lSeen \o resp.tasks
              /\ lCursor' = resp.nextCursor
              /\ lPc' = IF resp.hasMore THEN "next" ELSE "done"
    /\ lPages' = lPages + 1
    /\ UNCHANGED <<lWorkers, lQuery>>
    /\ UNCHANGED notL

\* the client gives up following the cursor
ListGiveUp ==
    /\ lPc = "next"
    /\ lPages = MaxPages
    /\ lPc' = "gave up"
    /\ UNCHANGED <<lWorkers, lQuery, lCursor, lSeen, lPages>>
    /\ UNCHANGED notL

LNext ==
    \/ ListSetup
    \/ ListTasks
    \/ ListGiveUp

----------------------------------------------------------------------------
(***************************************************************************)
(* internal/worker ThreadStorage: the JSONL journal of one task, and       *)
(* internal/api GetTaskThread reading it.  A line is the number of the     *)
(* message it was written for, whether it still parses, and its length.    *)
(***************************************************************************)
MaxThread == 3      \* lines in the journal
MaxRead == 3        \* the largest limit asked for
MaxToken == 2       \* the longest line bufio.Scanner takes (64 KB), scaled down

LineSizes == {1, MaxToken + 1}
Limits == 0..MaxRead
Offsets == 0..(MaxThread + 1)

NoRead == [op |-> "none", limit |-> 0, offset |-> 0, err |-> FALSE, messages |-> <<>>,
           total |-> 0, hasMore |-> FALSE]

\* no thread file yet
SInit ==
    /\ journal = <<>>
    /\ tRes = NoRead

\* AppendMessage(taskID, message), the message's JSON being size long
AppendMessage(size) ==
    /\ Len(journal) < MaxThread
    /\ journal' = Append(journal, [n |-> Len(journal) + 1, ok |-> TRUE, size |-> size])
    /\ tRes' = NoRead
    /\ UNCHANGED notS

\* somebody damages line k of the file in place: it is no JSON any more
CorruptLine(k) ==
    /\ k \in DOMAIN journal
    /\ journal[k].ok
    /\ journal' = [journal EXCEPT ![k].ok = FALSE]
    /\ tRes' = NoRead
    /\ UNCHANGED notS

\* ReadMessages: the loop over scanner.Scan() from line k on; the scanner stops with
\* an error at a line longer than its buffer
RECURSIVE ScanLoop(_, _, _, _, _, _)
ScanLoop(file, limit, offset, k, lineNum, messages) ==
    IF k > Len(file) THEN [err |-> FALSE, messages |-> messages]
    ELSE IF file[k].size > MaxToken THEN [err |-> TRUE, messages |-> <<>>]
    ELSE IF offset > 0 /\ lineNum < offset
         THEN ScanLoop(file, limit, offset, k + 1, lineNum + 1, messages)
    ELSE IF limit > 0 /\ Len(messages) >= limit THEN [err |-> FALSE, messages |-> messages]
    ELSE IF ~file[k].ok THEN ScanLoop(file, limit, offset, k + 1, lineNum, messages)
    ELSE ScanLoop(file, limit, offset, k + 1, lineNum + 1, Append(messages, file[k].n))

\* ReadMessages(taskID, limit, offset)
ReadMessages(file, limit, offset) == ScanLoop(file, limit, offset, 1, 0, <<>>)

\* CountMessages(taskID)
CountMessages(file) ==
    IF \E k \in DOMAIN file : file[k].size > MaxToken THEN [err |-> TRUE, count |-> 0]
    ELSE [err |-> FALSE, count |-> Len(file)]

\* the storage's ReadMessages called with a limit and an offset
CallReadMessages(limit, offset) ==
    /\ LET r == ReadMessages(journal, limit, offset) IN
       tRes' = [op |-> "read", limit |-> limit, offset |-> offset, err |-> r.err,
                messages |-> r.messages, total |-> 0, hasMore |-> FALSE]
    /\ UNCHANGED journal
    /\ UNCHANGED notS

\* GET /api/tasks/{id}/thread?limit=&offset=
GetTaskThread(limit, offset) ==
    /\ LET total == CountMessages(journal)
           r == ReadMessages(journal, limit, offset)
       IN  tRes' = IF total.err \/ r.err
                   THEN [op |-> "get", limit |-> limit, offset |-> offset, err |-> TRUE,
                         messages |-> <<>>, total |-> 0, hasMore |-> FALSE]
                   ELSE [op |-> "get", limit |-> limit, offset |-> offset, err |-> FALSE,
                         messages |-> r.messages, total |-> total.count,
                         hasMore |-> offset + Len(r.messages) < total.count]
    /\ UNCHANGED journal
    /\ UNCHANGED notS

SNext ==
    \/ \E size \in LineSizes : AppendMessage(size)
    \/ \E k \in 1..MaxThread : CorruptLine(k)
    \/ \E limit \in Limits, offset \in Offsets : CallReadMessages(limit, offset)
    \/ \E limit \in Limits \ {0}, offset \in Offsets : GetTaskThread(limit, offset)

----------------------------------------------------------------------------
(***************************************************************************)
(* internal/worker/types.go: CanTransition called with a pair of statuses   *)
(***************************************************************************)
\* a WorkerStatus is a string: the six constants, the zero value, anything else
WorkerStatuses == Statuses \cup {"", "invalid"}

KInit ==
    /\ kFrom = ""
    /\ kTo = ""
    /\ kRes = FALSE
    /\ kPc = "idle"

\* a caller picks the pair it is going to ask about
PickTransition(from, to) ==
    /\ kPc \in {"idle", "answered"}
    /\ kFrom' = from
    /\ kTo' = to
    /\ kRes' = FALSE
    /\ kPc' = "asking"
    /\ UNCHANGED notK

\* result := CanTransition(from, to)
CallCanTransition ==
    /\ kPc = "asking"
    /\ kRes' = CanTransition(kFrom, kTo)
    /\ kPc' = "answered"
    /\ UNCHANGED <<kFrom, kTo>>
    /\ UNCHANGED notK

KNext ==
    \/ \E from \in WorkerStatuses, to \in WorkerStatuses : PickTransition(from, to)
    \/ CallCanTransition

Init == MInit /\ HInit /\ TInit /\ PInit /\ CInit /\ LInit /\ SInit /\ KInit /\ DInit /\ GInit /\ AInit

\* The worker supervisor.
Next == MNext
Spec == Init /\ [][Next]_vars

\* POST /api/tasks requests: StartWorker, then the handler's ListWorkers and its
\* response, with the processes and their exit monitors.
StartTaskNext ==
    \/ \E t \in Threads : StartSpawn(t)
    \/ \E t \in Threads : StartLoad(t)
    \/ \E t \in Threads : StartSave(t)
    \/ \E t \in Threads : StartTail(t)
    \/ \E id \in WorkerIDs : StartTaskList(id)
    \/ \E id \in WorkerIDs : StartTaskSave(id)
    \/ \E p \in PIDs : ProcExit(p)
    \/ \E p \in PIDs, w \in WaitResults : MonitorLoad(p, w)
    \/ \E p \in PIDs : MonitorSave(p)
    \/ \E p \in PIDs : MonitorOnExit(p)
StartTaskSpec == Init /\ [][StartTaskNext]_vars

\* Scheduling: a MonitorWorkerExit goroutine that can run does run.
ExitFairSpec ==
    /\ Init /\ [][Next]_vars
    /\ \A p \in PIDs : /\ WF_vars(\E w \in WaitResults : MonitorLoad(p, w))
                       /\ WF_vars(MonitorSave(p))
                       /\ WF_vars(MonitorOnExit(p))

\* The hub, its clients and the facade goroutines that publish events.
HubNext == HNext
HubSpec == Init /\ [][HubNext]_vars

\* The hub and clients that send pings, while no heartbeat is due.
PingNext ==
    \/ \E f \in Facade, ty \in Events : FacadeBroadcast(f, ty)
    \/ \E c \in Clients : HubRegister(c)
    \/ \E g \in Unregisterers : HubUnregister(g)
    \/ \E g \in Senders : HubBroadcast(g)
    \/ \E c \in Clients : HubOffer(c)
    \/ HubBroadcastDone
    \/ \E c \in Clients : ServeWS(c)
    \/ \E c \in Clients : ReadPing(c)
    \/ \E c \in Clients : ReadError(c)
    \/ \E c \in Clients : WriteMessages(c)
    \/ \E c \in Clients : WriteEnd(c)
PingSpec == Init /\ [][PingNext]_vars

(***************************************************************************)
(* A Client built on its own (as the package's tests build one) and its    *)
(* subscription methods called directly.                                   *)
(***************************************************************************)
MessageTypes == {"log", "task-update", "heartbeat"}
TaskIDs == {"t1", "t2"}
SubscribeMessages == [types : SUBSET MessageTypes, tasks : SUBSET TaskIDs]

TheClient == 1

HubIdle ==
    UNCHANGED <<mvars, tvars, pvars, cvars, lvars, svars, kvars, ovars, gvars, avars, nextMsg, enq, wire, clients, connected, send, closed, connClosed,
                lastHeartbeat, now, hubPc, hubMsg, hubRound, hubTodo, hubTimeouts, sending,
                unregistering, reader, writer>>

CallSubscribe(sub) ==
    /\ handleSubscribe(TheClient, sub)
    /\ called' = [op |-> "subscribe", sub |-> sub, before |-> subs[TheClient]]
    /\ asked' = NotAsked
    /\ HubIdle

CallUnsubscribe(sub) ==
    /\ handleUnsubscribe(TheClient, sub)
    /\ called' = [op |-> "unsubscribe", sub |-> sub, before |-> subs[TheClient]]
    /\ asked' = NotAsked
    /\ HubIdle

CallShouldReceive(msgType, taskID) ==
    /\ asked' = [type |-> msgType, task |-> taskID,
                 res |-> ShouldReceiveMessage(TheClient, msgType, taskID)]
    /\ UNCHANGED <<subs, called>>
    /\ HubIdle

SubNext ==
    \/ \E sub \in SubscribeMessages : CallSubscribe(sub)
    \/ \E sub \in SubscribeMessages : CallUnsubscribe(sub)
    \/ \E msgType \in MessageTypes, taskID \in TaskIDs \cup {""} :
          CallShouldReceive(msgType, taskID)
SubSpec == Init /\ [][SubNext]_vars

\* An AmpLogParser and its caller.
ParserNext == PNext
ParserSpec == Init /\ [][ParserNext]_vars

\* The cursor functions and their caller.
CursorNext == CNext
CursorSpec == Init /\ [][CursorNext]_vars

\* A client paging through the task list of some registry with some query.
ListNext == LNext
ListSpec == Init /\ [][ListNext]_vars

\* The journal of a task, its writers and its readers.
ThreadNext == SNext
ThreadSpec == Init /\ [][ThreadNext]_vars

\* CanTransition and its caller.
TransitionNext == KNext
TransitionSpec == Init /\ [][TransitionNext]_vars


\* A log file, its writers, and one LogTailer following it.
TailNext == TNext
TailSpec == Init /\ [][TailNext]_vars

\* A worker's log file over stop and retry of the worker: one tailer, then the next.
RetryLogNext == TNext \/ RetryStartTailer
RetryLogSpec == Init /\ [][RetryLogNext]_vars

\* Scheduling: the 100 ms ticker keeps firing and tailFile keeps serving it.
TailFairSpec == Init /\ [][TailNext]_vars /\ WF_vars(Poll) /\ WF_vars(TailObserveStop)

\* Scheduling: a goroutine that can run does run (WF), and Go's select serves each
\* channel that is ready again and again (SF).  The tickers and the peers are free.
HubFairness ==
    /\ \A c \in Clients : SF_vars(HubRegister(c))
    /\ \A g \in Unregisterers : SF_vars(HubUnregister(g))
    /\ \A g \in Senders : SF_vars(HubBroadcast(g))
    /\ WF_vars(\E c \in Clients : HubOffer(c))
    /\ WF_vars(HubBroadcastDone)
    /\ \A c \in Clients : WF_vars(WriteMessages(c)) /\ WF_vars(WriteEnd(c))
HubFairSpec == Init /\ [][HubNext]_vars /\ HubFairness
----------------------------------------------------------------------------
(***************************************************************************)
(* Properties of the worker supervisor (checked under Spec).               *)
(***************************************************************************)

\* C1: every change of a worker's persisted status, whichever operation, exit
\* monitor or reconciliation writes it, is a pair of AllowedTransitions.
C1_EveryStatusChangeAllowed ==
    [][\A id \in DOMAIN stateFile \cap DOMAIN stateFile' :
           stateFile[id].status # stateFile'[id].status
               => CanTransition(stateFile[id].status, stateFile'[id].status)]_vars

\* A delete of id has begun or has returned.
DeleteBegun(id) ==
    \/ id \in hist.deleted
    \/ \E t \in Threads : thr[t].op = "delete" /\ thr[t].id = id

\* C2: concurrent mutators are serialized, so the registry keeps the effect of each:
\* a worker whose start has been persisted stays in the registry until a delete of
\* it begins (no update lost), and a worker whose delete has returned is not in the
\* registry (no deleted entry reappears).
C2_MutatorsSerialized ==
    /\ \A id \in hist.registered : DeleteBegun(id) \/ id \in DOMAIN stateFile
    /\ \A id \in hist.deleted : id \notin DOMAIN stateFile

\* C10: at the return of a successful stop or abort of a worker, the tailer map
\* holds no tailer for that worker.
C10_NoTailerAfterStopOrAbort ==
    (lastRet.op \in {"stop", "abort"} /\ lastRet.res = "ok")
        => lastRet.id \notin DOMAIN tailers
----------------------------------------------------------------------------
\* A handler begins in this step: thread t leaves "idle" or returns at once.
Begins(t) == thr[t].pc = "idle" /\ nOps' = nOps + 1

\* C11: retry is accepted from each of stopped, interrupted, aborted, failed and
\* completed and leaves the worker running with the PID of the process just spawned and
\* the ID, thread and log file it had; retry of a running worker is rejected as a
\* conflict ("cannot retry") and changes nothing.
C11_RetryFromNonRunning ==
    /\ [](/\ \A st \in Statuses \ {StatusRunning} : CanTransition(st, StatusRunning)
          /\ ~CanTransition(StatusRunning, StatusRunning))
    /\ [][\A t \in Threads :
            \* accepted exactly from the statuses other than running
            /\ (Begins(t) /\ thr'[t].op = "retry")
                  => /\ stateFile[thr'[t].id].status # StatusRunning
                     /\ thr'[t].pid \in procs' \ procs
            /\ (Begins(t) /\ lastRet'.op = "retry" /\ lastRet'.id \in DOMAIN stateFile)
                  => /\ stateFile[lastRet'.id].status = StatusRunning
                     /\ lastRet'.res = "cannot retry"
                     /\ UNCHANGED <<stateFile, procs, tailers, mon>>
            \* what retry persists
            /\ (thr[t].pc = "retry_save" /\ thr'[t].pc # "retry_save")
                  => LET id == thr[t].id IN
                     /\ stateFile'[id].status = StatusRunning
                     /\ stateFile'[id].pid = thr[t].pid
                     /\ stateFile'[id].pid # thr[t].snap[id].pid
                     /\ stateFile'[id].thread = thr[t].snap[id].thread
                     /\ stateFile'[id].logFile = thr[t].snap[id].logFile
                     /\ stateFile'[id].logFile = id
            \* and it returns nil
            /\ (thr[t].op = "retry" /\ thr'[t].pc = "idle")
                  => lastRet' = Ret("retry", thr[t].id, "ok")]_vars

\* a retry has returned nil and the worker is running on a new process, same thread
C11_Witness ==
    /\ lastRet.op = "retry" /\ lastRet.res = "ok"
    /\ lastRet.id \in DOMAIN stateFile
    /\ stateFile[lastRet.id].status = StatusRunning
    /\ stateFile[lastRet.id].pid # stateFile[lastRet.id].thread
    /\ stateFile[lastRet.id].pid \in procs

\* C12: stop of a worker recorded as running whose process and process group are gone
\* (every signal send fails) still succeeds and persists status stopped.
C12_StopToleratesDeadProcess ==
    [][\A t \in Threads :
         (/\ Begins(t)
          /\ lastRet'.op = "stop"
          /\ lastRet'.id \in DOMAIN stateFile
          /\ stateFile[lastRet'.id].status = StatusRunning
          /\ SignalFails(stateFile[lastRet'.id].pid))
             => /\ lastRet'.res = "ok"
                /\ stateFile'[lastRet'.id].status = StatusStopped]_vars

Target(op) == IF op = "interrupt" THEN StatusInterrupted ELSE StatusAborted

C14_StopNotRunningConflict ==
    [][\A t \in Threads :
         /\ (Begins(t) /\ thr'[t].op = "stop")
                => stateFile[thr'[t].id].status = StatusRunning
         /\ (/\ Begins(t)
             /\ lastRet'.op = "stop"
             /\ lastRet'.id \in DOMAIN stateFile
             /\ stateFile[lastRet'.id].status # StatusRunning)
                => /\ lastRet'.res = "not running"
                   /\ StopTask(lastRet'.res) = 409
                   /\ UNCHANGED <<stateFile, procs, tailers, liveTailers, hist, logFiles>>]_vars

\* a stop of a worker that is not running has just been refused
C14_Witness ==
    /\ lastRet = Ret("stop", lastRet.id, "not running")
    /\ lastRet.id \in DOMAIN stateFile
    /\ stateFile[lastRet.id].status \in {StatusStopped, StatusInterrupted, StatusAborted}

\* C15: when delete(id) returns nil the persisted registry has no entry for id, the
\* log file of id does not exist, and every other worker's entry is as it was.
C15_DeleteRemovesOnlyItsWorker ==
    [][\A t \in Threads :
         (thr[t].op = "delete" /\ thr'[t].pc = "idle")
            => LET id == thr[t].id IN
               /\ lastRet' = Ret("delete", id, "ok")
               /\ id \notin DOMAIN stateFile'
               /\ id \notin logFiles'
               /\ DOMAIN stateFile' = DOMAIN stateFile \ {id}
               /\ \A other \in DOMAIN stateFile \ {id} :
                      stateFile'[other] = stateFile[other]]_vars

\* No signal has reached process p: when it ends, it ends by itself.
Unsignalled(p) ==
    \A i \in DOMAIN hist.signals : hist.signals[i].pid = p => ~hist.signals[i].ok

\* C16: when the process of a running worker exits by itself the exit monitor records
\* completed for exit code 0 and failed otherwise; no user operation sets either status.
C16_ExitCodeDecidesStatus ==
    [][/\ \A p \in PIDs :
            (/\ mon[p].pc = "save" /\ mon'[p].pc = "exit"
             /\ mon[p].snap[mon[p].id].status = StatusRunning
             /\ Unsignalled(p))
                => stateFile'[mon[p].id].status =
                       IF mon[p].wait = "nil" THEN StatusCompleted ELSE StatusFailed
       /\ \A id \in DOMAIN stateFile' :
            (/\ stateFile'[id].status \in {StatusCompleted, StatusFailed}
             /\ id \in DOMAIN stateFile => stateFile[id].status # stateFile'[id].status)
                => \E p \in PIDs : mon[p].pc = "save" /\ mon'[p].pc = "exit"]_vars

\* The range loop of Run's broadcast case can always take its next step.
BroadcastCanStep ==
    hubPc = "broadcast" => ENABLED ((\E c \in Clients : HubOffer(c)) \/ HubBroadcastDone)

\* What one iteration of the range loop does to the client c it visits.
Offered(c) ==
    /\ hubTodo' = hubTodo \ {c}
    /\ hubPc' = "broadcast"
    /\ IF Len(send[c]) < SendCap
       THEN /\ send'[c] = Append(send[c], hubMsg)
            /\ c \in clients' /\ connected'[c] /\ ~closed'[c]
       ELSE /\ send'[c] = send[c]
            /\ c \notin clients' /\ ~connected'[c] /\ closed'[c]
    /\ \A d \in Clients \ {c} :
          /\ send'[d] = send[d]
          /\ (d \in clients') = (d \in clients)
          /\ closed'[d] = closed[d]

\* C3: the hub loop never blocks on a client's outbound buffer: in a broadcast each
\* connected client is offered the message without waiting; a client with room gets it,
\* a client whose buffer is full is evicted (out of the client set, buffer closed,
\* connected false), and the loop goes on to the other clients, which still get it.
C3_BroadcastNeverBlocks ==
    /\ []BroadcastCanStep
    /\ [][(hubPc = "broadcast" /\ hubTodo' # hubTodo)
            => \E c \in hubTodo : connected[c] /\ Offered(c)]_vars

\* a broadcast round is over in which one client was evicted and another got the message
C3_Witness ==
    /\ hubPc = "broadcast" /\ hubTodo = {}
    /\ \E c, d \in hubRound :
          /\ c \notin clients /\ closed[c] /\ Len(send[c]) = SendCap
          /\ d \in clients /\ send[d] # <<>> /\ send[d][Len(send[d])] = hubMsg

\* C4: at every server-heartbeat tick the hub broadcasts one heartbeat event to the
\* connected clients, and afterwards its loop is back at the select, processing events.
C4_ServerHeartbeatBroadcast ==
    /\ (hubPc = "sendServerHeartbeat") ~> (hubPc = "broadcast" /\ hubMsg = Heartbeat)
    /\ (hubPc = "sendServerHeartbeat") ~> (hubPc = "select")

\* C5: a connected client whose last heartbeat is older than heartbeatTimeout is evicted
\* by the next heartbeat check: it leaves the client set, its buffer is closed, its
\* connection is closed, and the hub loop is back at the select.
C5_TimedOutClientEvicted ==
    \A c \in Clients :
        (hubPc = "checkHeartbeats" /\ c \in hubTimeouts)
            ~> (c \notin clients /\ closed[c] /\ connClosed[c] /\ hubPc = "select")

\* The file holds a complete non-empty line of len bytes at offset off.
LineAt(off, len) ==
    /\ fExists
    /\ off + len + 1 <= Len(fData)
    /\ off = 0 \/ fData[off] = NL
    /\ \A k \in (off + 1)..(off + len) : fData[k] # NL
    /\ fData[off + len + 1] = NL

\* The callback has been called with that line of the content of epoch ep.
DeliveredLine(ep, off, len) ==
    \E i \in DOMAIN delivered :
        delivered[i].ep = ep /\ delivered[i].off = off /\ Len(delivered[i].txt) = len

\* The callback's calls follow the file: later content later, nothing twice.
InFileOrder ==
    \A i, j \in DOMAIN delivered :
        i < j => \/ delivered[i].ep < delivered[j].ep
                 \/ delivered[i].ep = delivered[j].ep /\ delivered[i].off < delivered[j].off

Following == tPc = "running" /\ ~cancelled
GrowOnly == ~fhist.truncated /\ ~fhist.removed

\* C7: for a log file that only grows (there before the tailer starts, created later,
\* or first seen empty) every newline-terminated non-empty line is delivered to the
\* callback, exactly once and in file order.
C7_GrowingFileDelivered ==
    /\ [](GrowOnly => InFileOrder)
    /\ \A off \in 0..MaxFile, len \in 1..MaxFile :
          (GrowOnly /\ Following /\ LineAt(off, len))
              ~> (~GrowOnly \/ ~Following \/ DeliveredLine(fEpoch, off, len))

\* C8: when the file is truncated between two polls, no line from before the
\* truncation is delivered again, and every complete line written after it is
\* delivered exactly once, whatever size the file has by the next poll.
C8_TruncationNewEpoch ==
    /\ [](~fhist.removed => InFileOrder)
    /\ \A e \in 1..MaxEpochs, off \in 0..MaxFile, len \in 1..MaxFile :
          (fhist.cut /\ ~fhist.removed /\ Following /\ fEpoch = e /\ LineAt(off, len))
              ~> (fhist.removed \/ ~Following \/ fEpoch # e \/ DeliveredLine(e, off, len))

\* C9: a trailing fragment with no newline yet is never delivered on its own: every
\* call of the callback carries a line whose terminating newline was in the file.
C9_NoUnterminatedFragment ==
    \A i \in DOMAIN delivered : delivered[i].term

\* C17: a client subscribed to types=[log] never has a task-update event put on its
\* buffer by a broadcast (log events are put there), and a client with no subscription
\* gets every broadcast: what a broadcast enqueues for a client is what
\* ShouldReceiveMessage admits for it.
C17_BroadcastHonoursSubscription ==
    [][\A c \in Clients :
         Len(send'[c]) > Len(send[c])
            => /\ ShouldReceiveMessage(c, send'[c][Len(send'[c])].type, "")
               /\ subs[c] = LogOnly => send'[c][Len(send'[c])].type # "task-update"]_vars

\* C18 as stated: true exactly when either subscription set is empty, or the type is
\* subscribed, or the task ID is non-empty and subscribed.
C18_ShouldReceiveEitherEmpty ==
    asked.type # "none"
        => asked.res = (\/ subs[TheClient].types = {} \/ subs[TheClient].tasks = {}
                        \/ asked.type \in subs[TheClient].types
                        \/ asked.task # "" /\ asked.task \in subs[TheClient].tasks)

\* C18, amended: ShouldReceiveMessage(type, taskID) is true exactly when both
\* subscription sets are empty, or the type is subscribed, or the task ID is non-empty
\* and subscribed.
C18_ShouldReceiveBothEmpty ==
    asked.type # "none"
        => asked.res = (\/ subs[TheClient].types = {} /\ subs[TheClient].tasks = {}
                        \/ asked.type \in subs[TheClient].types
                        \/ asked.task # "" /\ asked.task \in subs[TheClient].tasks)

\* the client is subscribed to log only and was asked about a task-update: refused
C18_Witness ==
    /\ subs[TheClient] = LogOnly
    /\ asked = [type |-> "task-update", task |-> "t1", res |-> FALSE]

\* how often message m is in seq
Count(seq, m) == Cardinality({k \in DOMAIN seq : seq[k] = m})

\* C19: a broadcast puts its message on a client's buffer at most once, and exactly once
\* for every client visited connected with room in its buffer.
C19_EnqueuedAtMostOnce ==
    /\ [](\A c \in Clients : \A k \in DOMAIN enq[c] : Count(enq[c], enq[c][k]) = 1)
    /\ [](hubPc = "broadcast" /\ hubTodo = {}
             => \A c \in hubRound \cap clients : Count(enq[c], hubMsg) = 1)
    /\ [][\A c \in Clients :
            (hubPc = "broadcast" /\ c \in hubTodo /\ c \notin hubTodo'
             /\ connected[c] /\ Len(send[c]) < SendCap)
                => enq'[c] = Append(enq[c], hubMsg) /\ send'[c] = Append(send[c], hubMsg)]_vars

\* a broadcast round over two clients is done and each holds the message once
C19_Witness ==
    /\ hubPc = "broadcast" /\ hubTodo = {}
    /\ Cardinality(hubRound \cap clients) = 2
    /\ \A c \in hubRound : Count(enq[c], hubMsg) = 1 /\ Len(enq[c]) >= 2

\* the events of one submitter are in seq in the order it submitted them
InSubmissionOrder(seq) ==
    \A i, j \in DOMAIN seq : (i < j /\ seq[i].by = seq[j].by) => seq[i].n < seq[j].n

IsPrefix(a, b) == Len(a) <= Len(b) /\ a = SubSeq(b, 1, Len(a))

\* C20: events are put on each client's buffer in the order they were submitted to the
\* hub, and the client's writer transmits them in that order, coalesced or not: what is
\* on the wire is a prefix of what was enqueued, the buffer holding the rest.
C20_OrderPreserved ==
    \A c \in Clients :
        /\ InSubmissionOrder(enq[c])
        /\ InSubmissionOrder(wire[c])
        /\ IsPrefix(wire[c], enq[c])
        /\ IsPrefix(send[c], SubSeq(enq[c], Len(wire[c]) + 1, Len(enq[c])))

\* a writer has sent three events, two of them taken from the buffer together
C20_Witness ==
    \E c \in Clients :
        /\ Len(wire[c]) = 3
        /\ wire[c] = enq[c]
        /\ writer[c] = "writing"

\* the register of client c has been processed by Run
Registered(c) == reader[c] \notin {"none", "registering"}

\* Run processes an unregister of client c in this step
UnregisterProcessed(c) ==
    /\ hubPc = "select"
    /\ \E g \in Unregisterers : unregistering[g] = c /\ unregistering'[g] = NoClient

\* C21: a processed register puts c in the client set, connected; while c is in the set
\* every broadcast Run takes up visits c and offers it the message; a processed
\* unregister (like the eviction on a full buffer) leaves c out of the set, its buffer
\* closed and connected false, and nothing is enqueued for it any more; an unregister of
\* a client that is not in the set changes nothing of the hub's.
C21_RegisterUnregister ==
    /\ [](\A c \in Clients :
            /\ c \in clients => Registered(c) /\ connected[c] /\ ~closed[c]
            /\ (Registered(c) /\ c \notin clients) => closed[c] /\ ~connected[c])
    /\ [][\A c \in Clients :
            /\ (reader[c] = "registering" /\ reader'[c] # "registering")
                  => c \in clients' /\ connected'[c]
            /\ (hubPc = "select" /\ hubPc' = "broadcast" /\ c \in clients)
                  => c \in hubTodo'
            /\ (hubPc = "broadcast" /\ c \in hubTodo /\ c \notin hubTodo')
                  => \/ send'[c] = Append(send[c], hubMsg)
                     \/ Len(send[c]) = SendCap /\ c \notin clients'
            /\ (hubPc = "broadcast" /\ hubPc' = "select") => hubTodo = {}
            /\ UnregisterProcessed(c)
                  => /\ c \notin clients' /\ ~connected'[c]
                     /\ c \in clients => closed'[c]
                     /\ c \notin clients
                           => UNCHANGED <<clients, connected, closed, send, enq>>
            /\ c \notin clients => enq'[c] = enq[c] /\ send'[c] \in {send[c], <<>>}]_vars

\* client c was registered, got a broadcast and has been unregistered; a later broadcast
\* went to another client and not to c
C21_Witness ==
    \E c, d \in Clients :
        /\ reader[c] = "done" /\ c \notin clients /\ closed[c] /\ ~connected[c]
        /\ Len(enq[c]) >= 1
        /\ d \in clients /\ Len(enq[d]) > Len(enq[c])

\* this step is a call of ProcessFinalConversation
FinalCalled == nFinals' = nFinals + 1

\* C22: ProcessFinalConversation called again, no snapshot having been parsed since its
\* last call, emits no message.
C22_FinalConversationIdempotent ==
    [][(FinalCalled /\ finalsSince >= 1) => lastBatch' = <<>>]_vars

\* the items of content that satisfy Keep, each turned into a message by Make
Pick(content, Keep(_), Make(_)) ==
    LET kept == SelectSeq(content, Keep) IN [k \in DOMAIN kept |-> Make(kept[k])]

NonBlank(s) == \E k \in DOMAIN s : s[k] # SP
Strip(s) ==
    LET ks == {k \in DOMAIN s : s[k] # SP} IN
    SubSeq(s, CHOOSE k \in ks : \A j \in ks : k <= j, CHOOSE k \in ks : \A j \in ks : k >= j)

Texts(content, type) ==
    Pick(content, LAMBDA c : c.type = "text" /\ NonBlank(c.text),
                  LAMBDA c : [type |-> type, content |-> Strip(c.text), kind |-> ""])
Thoughts(content) ==
    Pick(content, LAMBDA c : c.type = "thinking" /\ NonBlank(c.thinking),
                  LAMBDA c : [type |-> "assistant", content |-> Strip(c.thinking),
                              kind |-> "thinking"])
ToolUses(content) ==
    Pick(content, LAMBDA c : c.type = "tool_use" /\ c.name # <<>>,
                  LAMBDA c : [type |-> "tool", content |-> <<"Using tool: ">> \o c.name,
                              kind |-> "tool_use"])

\* the messages one message of the snapshot stands for
PartOf(m) ==
    CASE m.role = "user" -> Texts(m.content, "user")
      [] m.role = "assistant" ->
            Thoughts(m.content) \o ToolUses(m.content) \o Texts(m.content, "assistant")
      [] OTHER -> <<>>

RECURSIVE Parts(_)
Parts(messages) ==
    IF messages = <<>> THEN <<>> ELSE PartOf(Head(messages)) \o Parts(Tail(messages))

\* the conversation a snapshot stands for
ExpectedConversation(thread) ==
    (IF thread.title # <<>>
     THEN <<[type |-> "system", content |-> <<"Thread: ">> \o thread.title, kind |-> ""]>>
     ELSE <<>>) \o Parts(thread.messages)

C22_Witness ==
    /\ finalsSince = 2
    /\ nSnaps >= 1 /\ ExpectedConversation(lastSnap) # <<>>
    /\ lastBatch = <<>>

C27_CursorRoundTrip ==
    cPc = "parsed"
        => /\ ~cParsed.err
           /\ cParsed.id = cId
           /\ cParsed.time = cTime - (cTime % TicksPerSecond)

\* a cursor for an id with two separators and a time between two seconds was parsed
C27_Witness ==
    /\ cPc = "parsed"
    /\ cId = <<"_", "_">>
    /\ cTime % TicksPerSecond = 1 /\ cTime < 0
    /\ cParsed.id = cId

\* the tasks the query's filter lets through
Matching == Filtered(lWorkers, lQuery)

\* ids a and b of the registry stand in the query's sort order, ties allowed
InSortOrder(a, b) ==
    LET wa == [id |-> a, started |-> lWorkers[a].started, status |-> lWorkers[a].status]
        wb == [id |-> b, started |-> lWorkers[b].started, status |-> lWorkers[b].status]
    IN  ~shouldSwap(wa, wb, lQuery.sortBy, lQuery.sortOrder)

\* C24: following next_cursor from the first page until has_more is false returns every
\* matching task exactly once, in sort order: no task is returned twice, the client
\* reaches the last page, and then it holds all matching tasks, sorted.
C24_PagingCompleteNoRepeat ==
    /\ \A i, j \in DOMAIN lSeen : i # j => lSeen[i] # lSeen[j]
    /\ lPc # "gave up"
    /\ lPc = "done" /\ lPages > 0
          => /\ {lSeen[k] : k \in DOMAIN lSeen} = Matching
             /\ \A i, j \in DOMAIN lSeen : i < j => InSortOrder(lSeen[i], lSeen[j])

\* C25: GET thread reports has_more exactly when a request with the same limit and a
\* larger offset, past the messages of this page, would return at least one message,
\* malformed lines or not; so a client paging until has_more is false comes to an end.
C25_HasMoreExact ==
    (tRes.op = "get" /\ ~tRes.err)
        => tRes.hasMore
              = (\E o \in Offsets :
                    /\ o > tRes.offset
                    /\ o >= tRes.offset + Len(tRes.messages)
                    /\ ReadMessages(journal, tRes.limit, o).messages # <<>>)

\* the journal holds what AppendMessage wrote and nothing was damaged
OnlyAppended == \A k \in DOMAIN journal : journal[k].ok

\* positions a..b of the appended messages, b cut down to the end
Appended(a, b) ==
    LET last == IF b < Len(journal) THEN b ELSE Len(journal) IN
    [k \in 1..(IF last >= a THEN last - a + 1 ELSE 0) |-> a + k - 1]

\* C26: after any appends, ReadMessages(0, 0) returns the appended messages in the order
\* they were appended, and ReadMessages(limit, offset) the messages at positions
\* offset .. offset+limit-1 of them (none when offset is past the end).
C26_ReadReturnsAppended ==
    (tRes.op = "read" /\ OnlyAppended)
        => /\ ~tRes.err
           /\ tRes.messages
                 = Appended(tRes.offset + 1,
                            IF tRes.limit = 0 THEN Len(journal) ELSE tRes.offset + tRes.limit)

\* the call of UpdateWorkerMetadata by t finishes with this step: it saves and returns nil
UpdateReturns(t) ==
    /\ thr[t].pc = "update_save"
    /\ thr'[t].pc = "idle"

MetadataFields == {"title", "description", "priority", "tags"}

\* C28: when update_metadata(id, patch) saves, the registry changes in exactly
\* the fields of worker id that the patch holds, which take the patch's values:
\* the worker's absent fields, its thread, PID, status and log file, and every
\* other worker's entry are as they were just before, and no entry comes or goes.
C28_UpdateOverwritesOnlyPatched ==
    [][\A t \in Threads :
          UpdateReturns(t) =>
              LET id == thr[t].id
                  patch == thr[t].patch
              IN /\ DOMAIN stateFile' = DOMAIN stateFile
                 /\ \A k \in DOMAIN stateFile \ {id} : stateFile'[k] = stateFile[k]
                 /\ id \in DOMAIN stateFile
                 /\ \A f \in MetadataFields :
                        stateFile'[id][f] = IF patch[f] # <<>> THEN patch[f][1]
                                            ELSE stateFile[id][f]
                 /\ \A f \in DOMAIN stateFile[id] \ MetadataFields :
                        stateFile'[id][f] = stateFile[id][f]]_vars

\* the operations that take the id of an existing worker
ByIdOps == {"stop", "continue", "interrupt", "abort", "retry", "update", "delete"}

\* operation op is called for worker id in this step: the handler loads the
\* registry and either returns at once or goes on
Called(op, id) ==
    /\ nOps' = nOps + 1
    /\ \/ lastRet' = Ret(op, id, lastRet'.res)
       \/ \E t \in Threads : /\ thr[t].pc = "idle"
                             /\ thr'[t].pc # "idle"
                             /\ thr'[t].op = op
                             /\ thr'[t].id = id

\* C29: each of stop, continue, interrupt, abort, retry, update_metadata and
\* delete, called with an id the registry does not hold, returns a not-found
\* error, which its HTTP handler answers with 404 "Task not found"; the call
\* sends no signal, spawns no process and leaves the registry (and the tailers
\* and log files) as they were.
C29_UnknownIdNotFound ==
    [][\A op \in ByIdOps, id \in WorkerIDs :
          (Called(op, id) /\ id \notin DOMAIN stateFile)
              => /\ lastRet' = Ret(op, id, "not found")
                 /\ Respond(op, lastRet'.res) = [code |-> 404, body |-> "Task not found"]
                 /\ UNCHANGED <<stateFile, procs, nextPid, hist, tailers, liveTailers,
                                logFiles>>]_vars

\* an interrupt of an id that the registry does not hold (it was deleted, or never
\* registered) has just returned
C29_Witness ==
    /\ lastRet = Ret("interrupt", lastRet.id, "not found")
    /\ lastRet.id \notin DOMAIN stateFile
    /\ stateFile # <<>>

\* the transition table: the pairs (from, to) that are allowed
TransitionTable ==
    {<<StatusRunning, to>> : to \in {StatusStopped, StatusInterrupted, StatusAborted,
                                     StatusCompleted, StatusFailed}}
    \cup {<<from, to>> : from \in {StatusStopped, StatusInterrupted},
                         to \in {StatusRunning, StatusAborted}}
    \cup {<<from, StatusRunning>> : from \in {StatusAborted, StatusFailed, StatusCompleted}}

\* C30: CanTransition(from, to) returns true exactly for the pairs of the
\* transition table and false for every other pair of statuses, a transition
\* from running to running and one from an unknown status among them.
C30_CanTransitionIsTable ==
    kPc = "answered" => (kRes <=> <<kFrom, kTo>> \in TransitionTable)

\* CanTransition has refused a transition from a status it does not know to running
C30_Witness ==
    /\ kPc = "answered"
    /\ kFrom \notin Statuses
    /\ kTo = StatusRunning
    /\ kRes = FALSE

\* the sets of request sub are all in the sets cur
Holds(cur, sub) == sub.types \subseteq cur.types /\ sub.tasks \subseteq cur.tasks

\* C31: a subscribe message adds its types and task ids to the client's sets: an
\* element is in a set afterwards exactly if it was there or the message names it,
\* so a repeated subscribe changes nothing; an unsubscribe message removes them: an
\* element is there afterwards exactly if it was there and the message does not
\* name it; and unsubscribing the sets a client holds after subscribing to them
\* from the unsubscribed state (exactly the sets of the request) leaves both sets
\* empty, the state in which every message is received.
C31_SubscribeUnionUnsubscribeDifference ==
    LET cur == subs[TheClient]
        sub == called.sub
        old == called.before
    IN /\ called.op = "subscribe" =>
            /\ \A x \in MessageTypes : x \in cur.types <=> (x \in old.types \/ x \in sub.types)
            /\ \A x \in TaskIDs : x \in cur.tasks <=> (x \in old.tasks \/ x \in sub.tasks)
            /\ Holds(old, sub) => cur = old
            /\ old = NoSubs => cur = sub
       /\ called.op = "unsubscribe" =>
            /\ \A x \in MessageTypes : x \in cur.types <=> (x \in old.types /\ x \notin sub.types)
            /\ \A x \in TaskIDs : x \in cur.tasks <=> (x \in old.tasks /\ x \notin sub.tasks)
            /\ old = sub =>
                  /\ cur = NoSubs
                  /\ \A msgType \in MessageTypes, taskID \in TaskIDs \cup {""} :
                         ShouldReceiveMessage(TheClient, msgType, taskID)

\* the client, subscribed to types and tasks and to nothing else, has unsubscribed
\* from exactly these and is back at receiving everything
C31_Witness ==
    /\ called.op = "unsubscribe"
    /\ called.sub.types # {} /\ called.sub.tasks # {}
    /\ called.before = called.sub
    /\ subs[TheClient] = NoSubs
    /\ asked.type # "none" /\ asked.res

\* a call of Stop returns in this step
StopReturns == stopCalls' = stopCalls + 1

\* C32: Stop can be called again and again, also on a tailer that was never
\* started, and each call returns; a call on a tailer not started or already
\* cancelled changes nothing; once tailFile has observed the cancellation it has
\* no file open and makes no further callback, whatever is written to the file
\* afterwards.
C32_StopIdempotentAndFinal ==
    /\ [](stopCalls < MaxStops => ENABLED TailStop)
    /\ [](tPc = "exited" => tFile = "nil")
    /\ [][/\ (StopReturns /\ (tPc = "new" \/ cancelled))
                => UNCHANGED <<tPc, cancelled, tFile, delivered>>
          /\ (StopReturns /\ tPc # "new") => cancelled'
          /\ tPc = "exited" => (tPc' = "exited" /\ delivered' = delivered /\ tFile' = "nil")]_vars

\* Stop has been called three times, the tailer had delivered a line and has
\* returned, and the file holds a further whole line that nobody delivered
C32_Witness ==
    /\ tPc = "exited"
    /\ stopCalls = 3
    /\ delivered # <<>>
    /\ fExists
    /\ lastSize < Len(fData)
    /\ fData[Len(fData)] = NL

\* the exit monitor of process p takes a step that writes: its save of the
\* registry, or its onExit callback
MonitorWrites(p) ==
    /\ mon[p].pc \in {"save", "exit"}
    /\ mon'[p] # mon[p]

\* worker id has been retried since p was spawned for it, and the process it
\* runs now is alive
Superseded(p, id) ==
    /\ id \in DOMAIN stateFile
    /\ stateFile[id].pid # p
    /\ stateFile[id].pid \in procs

\* C33: a step of the exit monitor of a process spawned by an earlier run of a
\* worker, taken when the worker has been retried and its current process is
\* alive, leaves the worker's persisted status as it is and the tailer of the
\* current run in the tailer map and running.
C33_StaleExitLeavesRetriedWorker ==
    [][\A p \in PIDs :
          (MonitorWrites(p) /\ Superseded(p, mon[p].id))
              => LET id == mon[p].id
                 IN /\ id \in DOMAIN stateFile'
                    /\ stateFile'[id].status = stateFile[id].status
                    /\ (id \in DOMAIN tailers /\ tailers[id] = stateFile[id].pid)
                          => /\ id \in DOMAIN tailers'
                             /\ tailers'[id] = tailers[id]
                             /\ (tailers[id] \in liveTailers => tailers[id] \in liveTailers')]_vars

\* C34: over the life of a worker, retried or not, each line of its log file (the
\* bytes at one offset of one content of the file) is given to the log callback at
\* most once.  (That no two tailers of one worker run at a time is a property of
\* the supervisor's tailer map.)
C34_LineDeliveredAtMostOnce ==
    \A i \in 1..Len(delivered), j \in 1..Len(delivered) :
        (delivered[i].ep = delivered[j].ep /\ delivered[i].off = delivered[j].off) => i = j

\* C35: nothing is ever sent on a client's send channel after the hub has closed
\* it, a pong for a ping the reader handles after the eviction or unregistration
\* included; and the hub closes a client's channel at most once: whenever it
\* removes a client from its set, the channel was open until then.
C35_NoSendAfterClose ==
    /\ [](sentClosed = {})
    /\ [][\A c \in Clients : (c \in clients /\ c \notin clients')
                                 => (~closed[c] /\ closed'[c])]_vars

\* the exit monitor of process p has reloaded the registry and found its worker
MonitorFound(p) == mon[p].pc = "save"

\* the exit monitor of process p makes its onExit call
ExitCallback(p) == mon[p].pc = "exit" /\ mon'[p].pc = "done"

ContinueBegins(t, id) ==
    /\ Begins(t)
    /\ \/ lastRet' = Ret("continue", id, lastRet'.res)
       \/ thr'[t].op = "continue" /\ thr'[t].id = id

\* C37: continue(id) of a worker whose recorded status is not running fails with
\* "not running" (HTTP 409), runs no child and writes nothing; of a worker recorded
\* as running whose process is dead it saves status stopped for the worker and
\* fails the same way, running no child; and a continue that succeeds was of a
\* running worker with a live process and leaves the registry, so the worker's
\* status and PID, as it was.
C37_ContinueRefusalsAndSuccess ==
    [][\A t \in Threads :
         /\ \A id \in DOMAIN stateFile :
              ContinueBegins(t, id) =>
                 IF stateFile[id].status # StatusRunning
                 THEN /\ lastRet' = Ret("continue", id, "not running")
                      /\ ContinueTask(lastRet'.res).code = 409
                      /\ UNCHANGED <<stateFile, procs, nextPid, tailers, liveTailers, mon,
                                     hist, logFiles>>
                 ELSE IF stateFile[id].pid \notin procs
                 THEN /\ thr'[t].pc = "continue_save"
                      /\ UNCHANGED <<procs, nextPid, hist>>
                 ELSE /\ lastRet' = Ret("continue", id, "ok")
                      /\ ContinueTask(lastRet'.res).code = 202
                      /\ id \in hist'.continued
                      /\ stateFile' = stateFile
                      /\ UNCHANGED <<procs, nextPid>>
         /\ (thr[t].pc = "continue_save" /\ thr'[t] # thr[t])
               => /\ thr[t].id \in DOMAIN stateFile'
                  /\ stateFile'[thr[t].id].status = StatusStopped
                  /\ lastRet' = Ret("continue", thr[t].id, "not running")
                  /\ ContinueTask(lastRet'.res).code = 409
                  /\ UNCHANGED <<procs, nextPid, hist>>]_vars

\* a continue has just demoted a worker whose process was dead
C37_Witness ==
    /\ lastRet = Ret("continue", lastRet.id, "not running")
    /\ lastRet.id \in DOMAIN stateFile
    /\ stateFile[lastRet.id].status = StatusStopped
    /\ stateFile[lastRet.id].pid \notin procs
    /\ \A p \in PIDs : mon[p].pc # "done"
    /\ hist.continued # {}

\* the workers a list pass over the registry demotes: recorded as running, with a
\* PID that fails the signal-0 probe
Demoted(workers) ==
    {id \in DOMAIN workers :
        workers[id].status = StatusRunning /\ ~checkProcessStatus(workers[id])}

\* C38: a list call returns the registry it loaded with status stopped for exactly
\* the workers recorded as running whose PID fails the probe and every other
\* record as loaded; it writes the registry only when it demoted a worker, once,
\* and that write changes the persisted record of no worker but to demote it.
C38_ListDemotesExactlyDeadRunning ==
    [][\A t \in Threads :
         /\ (Begins(t) /\ lastRet' = Ret("list", 0, "ok"))
               => /\ Demoted(stateFile) = {}
                  /\ stateFile' = stateFile
         /\ (Begins(t) /\ thr'[t].op = "list")
               => /\ Demoted(stateFile) # {}
                  /\ stateFile' = stateFile
                  /\ DOMAIN thr'[t].snap = DOMAIN stateFile
                  /\ \A id \in DOMAIN stateFile :
                        thr'[t].snap[id] =
                            IF id \in Demoted(stateFile)
                            THEN [stateFile[id] EXCEPT !.status = StatusStopped]
                            ELSE stateFile[id]
         /\ (thr[t].pc = "list_save" /\ thr'[t] # thr[t])
               => /\ thr'[t] = Idle
                  /\ lastRet' = Ret("list", 0, "ok")
                  /\ stateFile' = thr[t].snap
                  /\ DOMAIN stateFile' = DOMAIN stateFile
                  /\ \A id \in DOMAIN stateFile :
                        \/ stateFile'[id] = stateFile[id]
                        \/ /\ stateFile[id].status = StatusRunning
                           /\ stateFile'[id] = [stateFile[id] EXCEPT !.status = StatusStopped]]_vars

\* C39: every 201 a POST /api/tasks request answers, and so the task-update it
\* broadcasts, describes the worker that request's StartWorker created.
C39_StartTaskDescribesOwnWorker ==
    \A id \in WorkerIDs :
        (startTask[id].pc = "done" /\ startTask[id].resp.code = 201)
            => /\ startTask[id].resp.id = id
               /\ startTask[id].resp.logFile = id

\* a snapshot has been parsed since the previous call of ProcessFinalConversation,
\* or at all when there was no call yet
SnapshotSince == finalsSince = 0 /\ nSnaps >= 1

\* C40 as stated: a call of ProcessFinalConversation emits messages if and only if
\* a thread-state snapshot has been parsed since the previous call (or at all, when
\* there was none); such a call emits the whole conversation of the latest snapshot,
\* whatever earlier calls emitted.
C40_EmitsIffSnapshotSince ==
    [][FinalCalled =>
          /\ (lastBatch' # <<>>) <=> SnapshotSince
          /\ SnapshotSince
                => /\ lastBatch' = ExpectedConversation(lastSnap)
                   /\ allEmitted' = allEmitted \o ExpectedConversation(lastSnap)]_vars

\* C40, amended: a call of ProcessFinalConversation emits messages if and only if a
\* thread-state snapshot has been parsed since the previous call (or at all, when
\* there was none) and that snapshot has a title or a non-blank item; such a call
\* emits the whole conversation of the latest snapshot, whatever earlier calls
\* emitted, and any other call emits nothing.
C40_EmitsSnapshotSinceInFull ==
    [][FinalCalled =>
          /\ (lastBatch' # <<>>)
                <=> (SnapshotSince /\ ExpectedConversation(lastSnap) # <<>>)
          /\ SnapshotSince
                => /\ lastBatch' = ExpectedConversation(lastSnap)
                   /\ allEmitted' = allEmitted \o ExpectedConversation(lastSnap)
          /\ ~SnapshotSince => allEmitted' = allEmitted]_vars

\* two snapshots were parsed and each was followed by a call; the second call
\* emitted the latest snapshot's conversation, whose first message the first call
\* had emitted already
C40_Witness ==
    /\ nSnaps = 2 /\ nFinals = 2 /\ finalsSince = 1
    /\ lastBatch # <<>>
    /\ lastBatch = ExpectedConversation(lastSnap)
    /\ Len(allEmitted) > Len(lastBatch)
    /\ allEmitted[1] = lastBatch[1]
    /\ Len(lastBatch) > Len(allEmitted) - Len(lastBatch)

\* C6: no facade operation blocks for ever: a goroutine inside Hub.Broadcast
\* (broadcastTaskUpdate, BroadcastLogEvent) gets its message taken by the hub and
\* returns, whatever state the hub is in.
C6_FacadeBroadcastReturns ==
    \A f \in Facade : (sending[f] # NoMsg) ~> (sending[f] = NoMsg)
=============================================================================
